---- MODULE Spec2Model ----
(***************************************************************************)
(* BiomechAI: the posture / gait classifiers (convex/chat.ts,              *)
(* convex/gait.ts), the record store they write to, the statistics         *)
(* queries that read it and the report / clean-up mutations               *)
(* (convex/reports.ts).                                                    *)
(*                                                                         *)
(* Numbers are the integers the thresholds are compared with; an optional  *)
(* argument is << >> when it is missing and <<v>> when it is present.      *)
(* Averages and percentages are exact rationals p/q, compared by cross     *)
(* multiplication and rounded as Math.round does (half towards +infinity). *)
(***************************************************************************)
EXTENDS Integers, Sequences, FiniteSets, TLC

VARIABLES
    args,              \* classifier run: the sample under classification
    pc,                \* classifier run: number of rules already evaluated
    classification,    \* classifier run: `let classification`
    recommendations,   \* classifier run: `const recommendations`
    postureSessions,   \* table postureSessions, in by_user index order
    gaitSessions,      \* table gaitSessions, in by_user index order
    reports,           \* table reports, in by_user index order
    nextId,            \* next document id the store hands out
    now,               \* Date.now(), in ticks of half a day
    result,            \* what the last function call returned
    loop               \* a delete-all mutation between its collect() and its return

vars == <<args, pc, classification, recommendations,
          postureSessions, gaitSessions, reports, nextId, now, result, loop>>

classifierVars == <<args, pc, classification, recommendations>>
storeVars == <<postureSessions, gaitSessions, reports, nextId, now, result, loop>>

----------------------------------------------------------------------------
(* JavaScript values *)

None == << >>
Some(v) == <<v>>

\* `x && ...` on an optional number: undefined and 0 are falsy
TruthyNum(o) == o # None /\ o[1] # 0

\* `if (x)` on an optional boolean
TruthyBool(o) == o # None /\ o[1]

\* `x || 0` on an optional number
OrZero(o) == IF o = None THEN 0 ELSE o[1]

Abs(x) == IF x < 0 THEN -x ELSE x

\* Math.round(p / q) for q > 0
Round(p, q) == (2 * p + q) \div (2 * q)

\* Math.floor(n / 2)
Half(n) == n \div 2

RECURSIVE SumSeq(_)
SumSeq(s) == IF s = << >> THEN 0 ELSE Head(s) + SumSeq(Tail(s))

\* Array.prototype.filter is SelectSeq

\* Array.prototype.slice(from) / slice(0, to), 0-based as in the source
SliceFrom(s, from) == SubSeq(s, from + 1, Len(s))
SliceTo(s, to) == SubSeq(s, 1, to)

----------------------------------------------------------------------------
(* analyzePosture: the rule cascade of convex/chat.ts *)

InitialPosture == [classification |-> "good", recommendations |-> << >>]

\* `classification = classification === "good" ? "fair" : classification`
FairIfGood(c) == IF c = "good" THEN "fair" ELSE c

Push(st, c, r) ==
    [classification |-> c, recommendations |-> Append(st.recommendations, r)]

SittingPositionRule(a, st) ==
    IF a.sittingPosition = Some("hunchback")
    THEN Push(st, "poor",
              "Correct hunchback posture by sitting up straight and pulling shoulders back")
    ELSE IF a.sittingPosition = Some("reclined")
    THEN Push(st, FairIfGood(st.classification),
              "Adjust to a more upright sitting position")
    ELSE st

HandFoldingRule(a, st) ==
    IF TruthyBool(a.handFolding)
    THEN Push(st, st.classification,
              "Keep your arms relaxed at your sides for better posture")
    ELSE st

KneelingRule(a, st) ==
    IF TruthyBool(a.kneeling)
    THEN Push(st, st.classification,
              "Sit with both feet flat on the ground for proper posture")
    ELSE st

\* mutant: the > 15 branch only downgrades to "fair"
ForwardHeadRule_OnlyFair(a, st) ==
    IF a.forwardHeadAngle > 10
    THEN Push(st, FairIfGood(st.classification),
              "Monitor forward head position throughout the day")
    ELSE st

ForwardHeadRule(a, st) ==
    IF a.forwardHeadAngle > 15
    THEN Push(st, "poor", "Reduce forward head posture by adjusting monitor height")
    ELSE IF a.forwardHeadAngle > 10
    THEN Push(st, FairIfGood(st.classification),
              "Monitor forward head position throughout the day")
    ELSE st

ShoulderTiltRule(a, st) ==
    IF Abs(a.shoulderTilt) > 10
    THEN Push(st, "poor", "Level your shoulders and check workspace ergonomics")
    ELSE st

\* mutant: the neck rule assigns "fair" without looking at the label
NeckAngleRule_Overwrite(a, st) ==
    IF a.neckAngle > 15
    THEN Push(st, "fair", "Maintain neutral neck position")
    ELSE st

NeckAngleRule(a, st) ==
    IF a.neckAngle > 15
    THEN Push(st, FairIfGood(st.classification), "Maintain neutral neck position")
    ELSE st

SpineAlignmentRule(a, st) ==
    IF a.spineAlignment < 70
    THEN Push(st, "poor", "Improve spinal alignment with back support")
    ELSE IF a.spineAlignment < 85
    THEN Push(st, FairIfGood(st.classification),
              "Focus on maintaining good spinal alignment")
    ELSE st

PostureScoreRule(a, st) ==
    IF TruthyNum(a.postureScore) /\ a.postureScore[1] < 60
    THEN Push(st, "poor", "Overall posture needs significant improvement")
    ELSE IF TruthyNum(a.postureScore) /\ a.postureScore[1] < 80
    THEN Push(st, FairIfGood(st.classification),
              "Posture is acceptable but can be improved")
    ELSE st

KeypointConfidenceRule(a, st) ==
    IF TruthyNum(a.keypointConfidence) /\ a.keypointConfidence[1] < 70
    THEN Push(st, st.classification,
              "Ensure good lighting and clear view for accurate posture analysis")
    ELSE st

\* mutant: the affirmation goes with the label "good"
PostureDefaultRule_WhenGood(a, st) ==
    IF st.classification = "good"
    THEN Push(st, st.classification,
              "Excellent posture! Keep maintaining this good posture")
    ELSE st

PostureDefaultRule(a, st) ==
    IF Len(st.recommendations) = 0
    THEN Push(st, st.classification,
              "Excellent posture! Keep maintaining this good posture")
    ELSE st

\* the statements of the handler between `let classification` and the insert
NumPostureRules == 10

PostureRule(k, a, st) ==
    CASE k = 1 -> SittingPositionRule(a, st)
      [] k = 2 -> HandFoldingRule(a, st)
      [] k = 3 -> KneelingRule(a, st)
      [] k = 4 -> ForwardHeadRule(a, st)
      [] k = 5 -> ShoulderTiltRule(a, st)
      [] k = 6 -> NeckAngleRule(a, st)
      [] k = 7 -> SpineAlignmentRule(a, st)
      [] k = 8 -> PostureScoreRule(a, st)
      [] k = 9 -> KeypointConfidenceRule(a, st)
      [] k = 10 -> PostureDefaultRule(a, st)

RECURSIVE PostureEval(_, _)
PostureEval(a, k) ==
    IF k = 0 THEN InitialPosture ELSE PostureRule(k, a, PostureEval(a, k - 1))

\* classification and recommendations as they stand at the insert
ClassifyPosture(a) == PostureEval(a, NumPostureRules)

----------------------------------------------------------------------------
(* Classifier runs, one rule per step *)

PostureInputs ==
    [forwardHeadAngle : {10, 11, 16, 20},
     shoulderTilt : {-11, 2, 10},
     neckAngle : {5, 16},
     spineAlignment : {69, 70, 84, 85, 90},
     duration : {30},
     sittingPosition : {None, Some("straight"), Some("hunchback"), Some("reclined")},
     handFolding : {None, Some(TRUE)},
     kneeling : {None, Some(TRUE)},
     postureScore : {None, Some(0), Some(59), Some(79), Some(80)},
     keypointConfidence : {None, Some(69)}]

\* no delete-all mutation is running
NoLoop == [table |-> "none"]

EmptyStore ==
    /\ postureSessions = << >>
    /\ gaitSessions = << >>
    /\ reports = << >>
    /\ nextId = 1
    /\ now = 0
    /\ result = [op |-> "none"]
    /\ loop = NoLoop

InitPosture ==
    /\ args \in PostureInputs
    /\ pc = 0
    /\ classification = InitialPosture.classification
    /\ recommendations = InitialPosture.recommendations
    /\ EmptyStore

PostureStep ==
    /\ pc < NumPostureRules
    /\ LET st == PostureRule(pc + 1, args,
                    [classification |-> classification,
                     recommendations |-> recommendations])
       IN /\ classification' = st.classification
          /\ recommendations' = st.recommendations
    /\ pc' = pc + 1
    /\ UNCHANGED <<args, storeVars>>

NextPosture == PostureStep

SpecPosture == InitPosture /\ [][NextPosture]_vars

----------------------------------------------------------------------------
(* Posture classifier properties *)

Severity(c) == CASE c = "good" -> 0 [] c = "fair" -> 1 [] c = "poor" -> 2

Max(S) == CHOOSE x \in S : \A y \in S : y <= x

\* the severity rule k asks for on its own, i.e. applied to a fresh "good"
AskedBy(k, a) == Severity(PostureRule(k, a, InitialPosture).classification)

WorstAsked(a) == Max({AskedBy(k, a) : k \in 1..NumPostureRules})

\* C1: the label starts at "good", no rule evaluation lowers its severity
\* (once "poor" it stays "poor", once "fair" it never returns to "good"),
\* and the label that reaches the insert is the worst severity any rule
\* asked for.
C1_LabelNeverImproves ==
    /\ [](pc = 0 => classification = "good")
    /\ [][Severity(classification') >= Severity(classification)]_vars
    /\ [](pc = NumPostureRules => Severity(classification) = WorstAsked(args))

\* a later, milder rule fires after an earlier rule has set "poor"
C1_Witness ==
    /\ pc = NumPostureRules
    /\ args.sittingPosition = Some("hunchback")
    /\ args.forwardHeadAngle = 11
    /\ args.neckAngle = 16
    /\ args.spineAlignment = 84
    /\ classification = "poor"

OnlyRequiredFields(a) ==
    /\ a.sittingPosition = None
    /\ a.handFolding = None
    /\ a.kneeling = None
    /\ a.postureScore = None
    /\ a.keypointConfidence = None

RuleTable(a) ==
    IF a.forwardHeadAngle > 15 \/ Abs(a.shoulderTilt) > 10 \/ a.spineAlignment < 70
    THEN "poor"
    ELSE IF a.forwardHeadAngle > 10 \/ a.neckAngle > 15 \/ a.spineAlignment < 85
    THEN "fair"
    ELSE "good"

\* C3: on a sample that carries only the required fields the label at the
\* insert is the one the threshold table gives: "poor" iff forward head > 15
\* or |shoulder tilt| > 10 or spine alignment < 70, else "fair" iff forward
\* head > 10 or neck > 15 or spine alignment < 85, else "good".
C3_RequiredFieldsRuleTable ==
    (pc = NumPostureRules /\ OnlyRequiredFields(args))
        => classification = RuleTable(args)

\* the sample {forwardHeadAngle: 20, shoulderTilt: 2, neckAngle: 5,
\* spineAlignment: 90} has been classified "poor"
C3_Witness ==
    /\ pc = NumPostureRules
    /\ OnlyRequiredFields(args)
    /\ args.forwardHeadAngle = 20
    /\ args.shoulderTilt = 2
    /\ args.neckAngle = 5
    /\ args.spineAlignment = 90
    /\ classification = "poor"
    /\ recommendations = <<"Reduce forward head posture by adjusting monitor height">>

----------------------------------------------------------------------------
(* analyzeGait: the rule cascade of convex/gait.ts *)

InitialGait == [classification |-> "normal", recommendations |-> << >>]

\* `classification = classification === "normal" ? "irregular" : classification`
IrregularIfNormal(c) == IF c = "normal" THEN "irregular" ELSE c

SymmetryRule(a, st) ==
    IF a.symmetryScore < 70
    THEN Push(st, "asymmetric",
              "Significant gait asymmetry detected - consider consulting a healthcare professional")
    ELSE IF a.symmetryScore < 85
    THEN Push(st, "irregular",
              "Minor gait irregularities detected - focus on balanced movement")
    ELSE st

\* mutant: the balance rule assigns "irregular" without looking at the label
BalanceRule_Overwrite(a, st) ==
    IF Abs(a.leftRightBalance - 50) > 15
    THEN Push(st, "irregular",
              "Uneven weight distribution between left and right steps")
    ELSE st

BalanceRule(a, st) ==
    IF Abs(a.leftRightBalance - 50) > 15
    THEN Push(st, IrregularIfNormal(st.classification),
              "Uneven weight distribution between left and right steps")
    ELSE st

\* mutant: the cadence bounds are taken as exclusive
CadenceRule_Exclusive(a, st) ==
    IF a.cadence <= 100 \/ a.cadence >= 180
    THEN Push(st, st.classification,
              "Cadence outside normal range - aim for 120-160 steps per minute")
    ELSE st

CadenceRule(a, st) ==
    IF a.cadence < 100 \/ a.cadence > 180
    THEN Push(st, st.classification,
              "Cadence outside normal range - aim for 120-160 steps per minute")
    ELSE st

\* mutant: an abnormal stance phase turns "normal" into "irregular"
StancePhaseRule_Irregular(a, st) ==
    IF TruthyNum(a.stancePhase) /\ (a.stancePhase[1] < 55 \/ a.stancePhase[1] > 70)
    THEN Push(st, IrregularIfNormal(st.classification),
              "Abnormal stance phase duration - may indicate balance issues")
    ELSE st

StancePhaseRule(a, st) ==
    IF TruthyNum(a.stancePhase) /\ (a.stancePhase[1] < 55 \/ a.stancePhase[1] > 70)
    THEN Push(st, st.classification,
              "Abnormal stance phase duration - may indicate balance issues")
    ELSE st

SwingPhaseRule(a, st) ==
    IF TruthyNum(a.swingPhase) /\ (a.swingPhase[1] < 25 \/ a.swingPhase[1] > 40)
    THEN Push(st, st.classification,
              "Abnormal swing phase duration - may indicate mobility limitations")
    ELSE st

\* heelStrikeForce / toeOffForce < 0.8 and > 1.2, for a non-zero divisor
ForceRatioBelow(h, t) == IF t > 0 THEN 10 * h < 8 * t ELSE 10 * h > 8 * t
ForceRatioAbove(h, t) == IF t > 0 THEN 10 * h > 12 * t ELSE 10 * h < 12 * t

ForceRule(a, st) ==
    IF /\ TruthyNum(a.heelStrikeForce)
       /\ TruthyNum(a.toeOffForce)
       /\ \/ ForceRatioBelow(a.heelStrikeForce[1], a.toeOffForce[1])
          \/ ForceRatioAbove(a.heelStrikeForce[1], a.toeOffForce[1])
    THEN Push(st, st.classification,
              "Uneven ground reaction forces - consider gait training")
    ELSE st

\* gaitSpeed is held in tenths of a metre per second: `gaitSpeed < 0.8`
SpeedRule(a, st) ==
    IF TruthyNum(a.gaitSpeed) /\ a.gaitSpeed[1] < 8
    THEN Push(st, st.classification,
              "Slow gait speed - consider increasing walking pace gradually")
    ELSE st

\* `args.analysisType === 'esp32'`
IsEsp32Analysis(a) == a.analysisType = "esp32"

\* the block guarded by `args.analysisType === 'esp32'`
Esp32Rules(a, st) ==
    IF IsEsp32Analysis(a)
    THEN SpeedRule(a, ForceRule(a, SwingPhaseRule(a, StancePhaseRule(a, st))))
    ELSE st

GaitDefaultRule(a, st) ==
    IF Len(st.recommendations) = 0
    THEN Push(st, st.classification, "Normal gait pattern detected!")
    ELSE st

\* the statements of the handler between `let classification` and the insert
NumGaitRules == 5

GaitRule(k, a, st) ==
    CASE k = 1 -> SymmetryRule(a, st)
      [] k = 2 -> BalanceRule(a, st)
      [] k = 3 -> CadenceRule(a, st)
      [] k = 4 -> Esp32Rules(a, st)
      [] k = 5 -> GaitDefaultRule(a, st)

RECURSIVE GaitEval(_, _)
GaitEval(a, k) ==
    IF k = 0 THEN InitialGait ELSE GaitRule(k, a, GaitEval(a, k - 1))

\* classification and recommendations as they stand at the insert
ClassifyGait(a) == GaitEval(a, NumGaitRules)

GaitInputs ==
    [stepCount : {0},
     symmetryScore : {69, 70, 84, 85, 92},
     cadence : {99, 100, 130, 180, 181},
     leftRightBalance : {34, 35, 50, 66},
     analysisType : {"motion", "esp32", "esp32-wifi"},
     strideLength : {None},
     gaitSpeed : {None, Some(7)},
     stancePhase : {None, Some(54), Some(60)},
     swingPhase : {None, Some(24)},
     heelStrikeForce : {None, Some(7), Some(10)},
     toeOffForce : {None, Some(0), Some(10)}]

InitGait ==
    /\ args \in GaitInputs
    /\ pc = 0
    /\ classification = InitialGait.classification
    /\ recommendations = InitialGait.recommendations
    /\ EmptyStore

GaitStep ==
    /\ pc < NumGaitRules
    /\ LET st == GaitRule(pc + 1, args,
                    [classification |-> classification,
                     recommendations |-> recommendations])
       IN /\ classification' = st.classification
          /\ recommendations' = st.recommendations
    /\ pc' = pc + 1
    /\ UNCHANGED <<args, storeVars>>

NextGait == GaitStep

SpecGait == InitGait /\ [][NextGait]_vars

----------------------------------------------------------------------------
(* Gait classifier properties *)

\* C2: a gait sample with symmetryScore < 70 reaches the insert with the
\* label "asymmetric" whatever its other fields are, and from the symmetry
\* rule on no later rule (the balance rule in particular) changes that label.
C2_LowSymmetryIsAsymmetric ==
    (args.symmetryScore < 70 /\ pc >= 1) => classification = "asymmetric"

\* the balance rule has fired on a sample with symmetryScore < 70
C2_Witness ==
    /\ pc = NumGaitRules
    /\ args.symmetryScore < 70
    /\ Abs(args.leftRightBalance - 50) > 15
    /\ args.analysisType = "esp32"
    /\ classification = "asymmetric"
    /\ Len(recommendations) >= 2

\* C4: symmetryScore >= 85, |leftRightBalance - 50| <= 15, cadence within
\* [100, 180] and an analysisType other than 'esp32' give the label "normal"
\* and the recommendations list ["Normal gait pattern detected!"].
C4_NormalGait ==
    (/\ pc = NumGaitRules
     /\ args.symmetryScore >= 85
     /\ Abs(args.leftRightBalance - 50) <= 15
     /\ args.cadence >= 100
     /\ args.cadence <= 180
     /\ args.analysisType # "esp32")
        => /\ classification = "normal"
           /\ recommendations = <<"Normal gait pattern detected!">>

\* the sample {symmetryScore: 92, cadence: 130, leftRightBalance: 50,
\* analysisType: "motion"} has been classified
C4_Witness ==
    /\ pc = NumGaitRules
    /\ args.symmetryScore = 92
    /\ args.cadence = 130
    /\ args.leftRightBalance = 50
    /\ args.analysisType = "motion"
    /\ classification = "normal"
    /\ recommendations = <<"Normal gait pattern detected!">>

----------------------------------------------------------------------------
(* The record store: documents and index order *)

PostureFields ==
    {"forwardHeadAngle", "shoulderTilt", "neckAngle", "spineAlignment", "duration",
     "sittingPosition", "handFolding", "kneeling", "postureScore",
     "keypointConfidence"}

GaitFields ==
    {"stepCount", "symmetryScore", "cadence", "leftRightBalance", "analysisType",
     "strideLength", "gaitSpeed", "stancePhase", "swingPhase", "heelStrikeForce",
     "toeOffForce"}

\* the document analyzePosture hands to ctx.db.insert("postureSessions", ...)
PostureDoc(id, t, a, c) ==
    [_id |-> id,
     timestamp |-> t,
     forwardHeadAngle |-> a.forwardHeadAngle,
     shoulderTilt |-> a.shoulderTilt,
     neckAngle |-> a.neckAngle,
     spineAlignment |-> a.spineAlignment,
     classification |-> c.classification,
     duration |-> a.duration,
     sittingPosition |-> a.sittingPosition,
     handFolding |-> a.handFolding,
     kneeling |-> a.kneeling,
     postureScore |-> a.postureScore,
     keypointConfidence |-> a.keypointConfidence,
     recommendations |-> c.recommendations]

\* the document analyzeGait hands to ctx.db.insert("gaitSessions", ...)
GaitDoc(id, t, a, c) ==
    [_id |-> id,
     timestamp |-> t,
     stepCount |-> a.stepCount,
     symmetryScore |-> a.symmetryScore,
     cadence |-> a.cadence,
     strideLength |-> a.strideLength,
     gaitSpeed |-> a.gaitSpeed,
     leftRightBalance |-> a.leftRightBalance,
     classification |-> c.classification,
     analysisType |-> a.analysisType,
     stancePhase |-> a.stancePhase,
     swingPhase |-> a.swingPhase,
     heelStrikeForce |-> a.heelStrikeForce,
     toeOffForce |-> a.toeOffForce,
     recommendations |-> c.recommendations]

\* the sample fields of a stored document
SampleOf(doc, fields) == [f \in fields |-> doc[f]]

\* index by_user_and_timestamp: by timestamp, ties in creation order
IndexBefore(x, y) ==
    \/ x.timestamp < y.timestamp
    \/ (x.timestamp = y.timestamp /\ x._id < y._id)

RECURSIVE InsertOrdered(_, _)
InsertOrdered(x, s) ==
    IF s = << >> THEN <<x>>
    ELSE IF IndexBefore(x, Head(s)) THEN <<x>> \o s
    ELSE <<Head(s)>> \o InsertOrdered(x, Tail(s))

RECURSIVE ByUserAndTimestamp(_)
ByUserAndTimestamp(s) ==
    IF s = << >> THEN << >> ELSE InsertOrdered(Head(s), ByUserAndTimestamp(Tail(s)))

\* .order("desc")
Reverse(s) == [i \in 1..Len(s) |-> s[Len(s) + 1 - i]]

\* .take(n)
Take(s, n) == SubSeq(s, 1, IF n < Len(s) THEN n ELSE Len(s))

\* `args.limit || 50`
DefaultLimit == 50
LimitOrDefault(limit) == IF TruthyNum(limit) THEN limit[1] ELSE DefaultLimit

\* mutant: the document is marked as deleted and kept
DeleteId_Tombstone(table, id) ==
    [i \in 1..Len(table) |->
        IF table[i]._id = id THEN [table[i] EXCEPT !.recommendations = << >>] ELSE table[i]]

\* ctx.db.delete(id) on a table
DeleteId(table, id) == SelectSeq(table, LAMBDA d : d._id # id)

Ids(table) == {table[i]._id : i \in 1..Len(table)}

----------------------------------------------------------------------------
(* Mutations and queries on sessions *)

AnalyzePosture(a) ==
    LET c == ClassifyPosture(a)
    IN /\ args' = a
       /\ pc' = NumPostureRules
       /\ classification' = c.classification
       /\ recommendations' = c.recommendations
       /\ postureSessions' = Append(postureSessions, PostureDoc(nextId, now, a, c))
       /\ nextId' = nextId + 1
       /\ result' = [op |-> "analyzePosture",
                     sessionId |-> nextId,
                     classification |-> c.classification,
                     recommendations |-> c.recommendations,
                     score |-> IF c.classification = "good" THEN 90
                               ELSE IF c.classification = "fair" THEN 70 ELSE 40]
       /\ UNCHANGED <<gaitSessions, reports, now, loop>>

\* the handler of analyzeGait up to its return: classification and insert
RunAnalyzeGait(a) ==
    LET c == ClassifyGait(a)
    IN /\ args' = a
       /\ pc' = NumGaitRules
       /\ classification' = c.classification
       /\ recommendations' = c.recommendations
       /\ gaitSessions' = Append(gaitSessions, GaitDoc(nextId, now, a, c))
       /\ nextId' = nextId + 1
       /\ UNCHANGED <<postureSessions, reports, now, loop>>

\* `return { sessionId, classification, recommendations, score }`
AnalyzeGaitReturn(a, sessionId) ==
    [op |-> "analyzeGait",
     sessionId |-> sessionId,
     classification |-> ClassifyGait(a).classification,
     recommendations |-> ClassifyGait(a).recommendations,
     score |-> a.symmetryScore]

AnalyzeGait(a) ==
    /\ RunAnalyzeGait(a)
    /\ result' = AnalyzeGaitReturn(a, nextId)

\* mutant: the query forgets .order("desc")
History_Ascending(table, limit) ==
    Take(ByUserAndTimestamp(table), LimitOrDefault(limit))

History(table, limit) ==
    Take(Reverse(ByUserAndTimestamp(table)), LimitOrDefault(limit))

GetPostureHistory(limit) ==
    /\ result' = [op |-> "getPostureHistory", value |-> History(postureSessions, limit)]
    /\ UNCHANGED <<classifierVars, postureSessions, gaitSessions, reports, nextId, now, loop>>

GetGaitHistory(limit) ==
    /\ result' = [op |-> "getGaitHistory", value |-> History(gaitSessions, limit)]
    /\ UNCHANGED <<classifierVars, postureSessions, gaitSessions, reports, nextId, now, loop>>

\* time passes between two function calls
Tick ==
    /\ now' = now + 1
    /\ UNCHANGED <<classifierVars, postureSessions, gaitSessions, reports, nextId, result, loop>>

----------------------------------------------------------------------------
(* JavaScript numbers that come out of a division: p / q *)

Finite(p, q) == [kind |-> "finite", p |-> p, q |-> q]
NaN == [kind |-> "NaN", p |-> 0, q |-> 1]
Infinity == [kind |-> "Infinity", p |-> 1, q |-> 1]
NegInfinity == [kind |-> "-Infinity", p |-> -1, q |-> 1]

IsFinite(x) == x.kind = "finite"

Sign(n) == IF n > 0 THEN 1 ELSE IF n < 0 THEN -1 ELSE 0

\* x - y: NaN as soon as an operand is NaN
JsSub(x, y) ==
    IF IsFinite(x) /\ IsFinite(y) THEN Finite(x.p * y.q - y.p * x.q, x.q * y.q) ELSE NaN

\* x > k and x < k against an integer k: false on NaN
JsGt(x, k) == IsFinite(x) /\ x.p > k * x.q
JsLt(x, k) == IsFinite(x) /\ x.p < k * x.q

\* `x ? ... : ...` on a number: 0 and NaN are falsy
JsTruthy(x) == IsFinite(x) /\ x.p # 0

\* x.toFixed(1): the value in tenths, a tie rounded away from zero
ToFixed1(x) ==
    IF IsFinite(x)
    THEN Finite(Sign(x.p) * ((20 * Abs(x.p) + x.q) \div (2 * x.q)), 10)
    ELSE x


\* mutant: a division by zero gives 0
JsDiv_Guarded(x, y) ==
    IF y.p = 0 THEN Finite(0, 1) ELSE Finite(Sign(y.p) * x.p * y.q, Abs(y.p) * x.q)

\* x / y on finite operands: a zero divisor gives NaN or an infinity
JsDiv(x, y) ==
    IF y.p = 0
    THEN IF x.p = 0 THEN NaN ELSE IF x.p > 0 THEN Infinity ELSE NegInfinity
    ELSE Finite(Sign(y.p) * x.p * y.q, Abs(y.p) * x.q)

\* x * n for an integer n > 0
JsTimes(x, n) == IF IsFinite(x) THEN Finite(x.p * n, x.q) ELSE x

\* Math.round: NaN and the infinities are returned as they are
JsRound(x) == IF IsFinite(x) THEN Finite(Round(x.p, x.q), 1) ELSE x

\* `reduce((sum, ...) => ..., 0) / length`: 0 / 0 on an empty array
Average(values) == JsDiv(Finite(SumSeq(values), 1), Finite(Len(values), 1))

----------------------------------------------------------------------------
(* getPostureStats and getGaitStats *)

\* 24 * 60 * 60 * 1000 ms, in ticks of half a day
DAY == 2

\* new Date(t).toLocaleDateString(): the calendar day t falls in
LocaleDate(t) == t \div DAY

\* `filter(s => s.classification === label).length`
CountLabel(s, label) == Len(SelectSeq(s, LAMBDA x : x.classification = label))

\* `filter(s => s.handFolding).length` for an optional boolean field
CountTruthy(s, field) == Len(SelectSeq(s, LAMBDA x : TruthyBool(x[field])))

\* `sessions.filter(s => s.timestamp > weekAgo)`
RecentSessions(sessions, t) ==
    SelectSeq(sessions, LAMBDA s : s.timestamp > t - 7 * DAY)

\* the day window of loop index i
DayStart(t, i) == t - i * DAY
DayEnd(t, i) == DayStart(t, i) + DAY

DaySessions(sessions, t, i) ==
    SelectSeq(RecentSessions(sessions, t),
              LAMBDA s : s.timestamp >= DayStart(t, i) /\ s.timestamp < DayEnd(t, i))

PostureDayScore(day) ==
    IF Len(day) > 0 THEN Round(CountLabel(day, "good") * 100, Len(day)) ELSE 0

GaitDaySymmetry(day) ==
    IF Len(day) > 0
    THEN Round(SumSeq([k \in 1..Len(day) |-> day[k].symmetryScore]), Len(day))
    ELSE 0

\* mutant: the loop stops at i > 0
PostureWeeklyTrend_SixDays(sessions, t) ==
    [j \in 1..6 |->
        [date |-> LocaleDate(DayStart(t, 7 - j)),
         score |-> PostureDayScore(DaySessions(sessions, t, 7 - j))]]

\* `for (let i = 6; i >= 0; i--)`: entry j is the window of i = 7 - j
PostureWeeklyTrend(sessions, t) ==
    [j \in 1..7 |->
        [date |-> LocaleDate(DayStart(t, 7 - j)),
         score |-> PostureDayScore(DaySessions(sessions, t, 7 - j))]]

GaitWeeklyTrend(sessions, t) ==
    [j \in 1..7 |->
        [date |-> LocaleDate(DayStart(t, 7 - j)),
         symmetry |-> GaitDaySymmetry(DaySessions(sessions, t, 7 - j))]]

\* mutant: the delta is taken first half minus second half
ImprovementRate_Swapped(sessions) ==
    LET midPoint == Half(Len(sessions))
        firstHalf == SliceTo(sessions, midPoint)
        secondHalf == SliceFrom(sessions, midPoint)
        firstHalfScore ==
            IF Len(firstHalf) > 0
            THEN Finite(CountLabel(firstHalf, "good") * 100, Len(firstHalf)) ELSE Finite(0, 1)
        secondHalfScore ==
            IF Len(secondHalf) > 0
            THEN Finite(CountLabel(secondHalf, "good") * 100, Len(secondHalf)) ELSE Finite(0, 1)
    IN JsRound(IF Len(firstHalf) > 0 /\ Len(secondHalf) > 0
               THEN JsTimes(JsDiv(JsSub(firstHalfScore, secondHalfScore), firstHalfScore), 100)
               ELSE Finite(0, 1))

\* `Math.round(improvementRate)` of the first half / second half comparison
ImprovementRate(sessions) ==
    LET midPoint == Half(Len(sessions))
        firstHalf == SliceTo(sessions, midPoint)
        secondHalf == SliceFrom(sessions, midPoint)
        firstHalfScore ==
            IF Len(firstHalf) > 0
            THEN Finite(CountLabel(firstHalf, "good") * 100, Len(firstHalf)) ELSE Finite(0, 1)
        secondHalfScore ==
            IF Len(secondHalf) > 0
            THEN Finite(CountLabel(secondHalf, "good") * 100, Len(secondHalf)) ELSE Finite(0, 1)
    IN JsRound(IF Len(firstHalf) > 0 /\ Len(secondHalf) > 0
               THEN JsTimes(JsDiv(JsSub(secondHalfScore, firstHalfScore), firstHalfScore), 100)
               ELSE Finite(0, 1))

\* `sittingPositionStats[s.sittingPosition] = (... || 0) + 1` over the sessions
SittingPositionStats(sessions) ==
    LET positions == {sessions[k].sittingPosition[1] :
                         k \in {n \in 1..Len(sessions) : sessions[n].sittingPosition # None}}
    IN [p \in positions |->
            Len(SelectSeq(sessions, LAMBDA s : s.sittingPosition = Some(p)))]

\* the object returned when `sessions.length === 0`
EmptyPostureStats ==
    [totalSessions |-> 0,
     averageScore |-> 0,
     goodPosturePercentage |-> 0,
     weeklyTrend |-> << >>,
     advancedStats |->
        [sittingPositionStats |-> << >>,
         handFoldingPercentage |-> 0,
         kneelingPercentage |-> 0,
         averagePostureScore |-> 0,
         averageKeypointConfidence |-> 0]]

\* averageForwardHead is held in tenths: Math.round(avg * 10) / 10
PostureStats(sessions, t) ==
    IF Len(sessions) = 0 THEN EmptyPostureStats
    ELSE
    LET n == Len(sessions)
        goodSessions == CountLabel(sessions, "good")
        withPostureScore == SelectSeq(sessions, LAMBDA s : s.postureScore # None)
        withKeypointConfidence == SelectSeq(sessions, LAMBDA s : s.keypointConfidence # None)
    IN [totalSessions |-> n,
        averageScore |-> Round(goodSessions * 100, n),
        goodPosturePercentage |-> Round(goodSessions * 100, n),
        averageForwardHead |->
            Round(SumSeq([k \in 1..n |-> sessions[k].forwardHeadAngle]) * 10, n),
        improvementRate |-> ImprovementRate(sessions),
        weeklyTrend |-> PostureWeeklyTrend(sessions, t),
        advancedStats |->
           [sittingPositionStats |-> SittingPositionStats(sessions),
            handFoldingPercentage |->
                Round(CountTruthy(sessions, "handFolding") * 100, n),
            kneelingPercentage |->
                Round(CountTruthy(sessions, "kneeling") * 100, n),
            averagePostureScore |->
                IF Len(withPostureScore) > 0
                THEN Round(SumSeq([k \in 1..Len(withPostureScore) |->
                                      OrZero(withPostureScore[k].postureScore)]),
                           Len(withPostureScore))
                ELSE 0,
            averageKeypointConfidence |->
                IF Len(withKeypointConfidence) > 0
                THEN Round(SumSeq([k \in 1..Len(withKeypointConfidence) |->
                                      OrZero(withKeypointConfidence[k].keypointConfidence)]),
                           Len(withKeypointConfidence))
                ELSE 0]]

EmptyGaitStats ==
    [totalSessions |-> 0,
     averageSymmetry |-> 0,
     averageCadence |-> 0,
     normalGaitPercentage |-> 0,
     weeklyTrend |-> << >>]

GaitStats(sessions, t) ==
    IF Len(sessions) = 0 THEN EmptyGaitStats
    ELSE
    LET n == Len(sessions)
    IN [totalSessions |-> n,
        averageSymmetry |-> Round(SumSeq([k \in 1..n |-> sessions[k].symmetryScore]), n),
        averageCadence |-> Round(SumSeq([k \in 1..n |-> sessions[k].cadence]), n),
        normalGaitPercentage |-> Round(CountLabel(sessions, "normal") * 100, n),
        weeklyTrend |-> GaitWeeklyTrend(sessions, t)]

GetPostureStats ==
    /\ result' = [op |-> "getPostureStats", at |-> now,
                  value |-> PostureStats(postureSessions, now)]
    /\ UNCHANGED <<classifierVars, postureSessions, gaitSessions, reports, nextId, now, loop>>

GetGaitStats ==
    /\ result' = [op |-> "getGaitStats", at |-> now,
                  value |-> GaitStats(gaitSessions, now)]
    /\ UNCHANGED <<classifierVars, postureSessions, gaitSessions, reports, nextId, now, loop>>

----------------------------------------------------------------------------
(* Specifications of the statistics queries *)

InitStore ==
    /\ args = << >>
    /\ pc = 0
    /\ classification = ""
    /\ recommendations = << >>
    /\ EmptyStore

GoodPosture ==
    [forwardHeadAngle |-> 5, shoulderTilt |-> 2, neckAngle |-> 5, spineAlignment |-> 90,
     duration |-> 30, sittingPosition |-> None, handFolding |-> None, kneeling |-> None,
     postureScore |-> None, keypointConfidence |-> None]

PoorPosture ==
    [forwardHeadAngle |-> 20, shoulderTilt |-> 2, neckAngle |-> 5, spineAlignment |-> 90,
     duration |-> 30, sittingPosition |-> None, handFolding |-> None, kneeling |-> None,
     postureScore |-> None, keypointConfidence |-> None]

NormalGait ==
    [stepCount |-> 40, symmetryScore |-> 92, cadence |-> 130, leftRightBalance |-> 50,
     analysisType |-> "motion", strideLength |-> None, gaitSpeed |-> None,
     stancePhase |-> None, swingPhase |-> None, heelStrikeForce |-> None, toeOffForce |-> None]

\* mutant: the endpoint passes a symmetry score of 92
EndpointGait_Symmetric ==
    [stepCount |-> 0, symmetryScore |-> 92, cadence |-> 0, leftRightBalance |-> 50,
     analysisType |-> "esp32-wifi", strideLength |-> Some(0), gaitSpeed |-> Some(0),
     stancePhase |-> Some(60), swingPhase |-> Some(40), heelStrikeForce |-> Some(0), toeOffForce |-> Some(0)]

\* the arguments the /api/esp32-data endpoint passes to analyzeGait
EndpointGait ==
    [stepCount |-> 0, symmetryScore |-> 0, cadence |-> 0, leftRightBalance |-> 50,
     analysisType |-> "esp32-wifi", strideLength |-> Some(0), gaitSpeed |-> Some(0),
     stancePhase |-> Some(60), swingPhase |-> Some(40), heelStrikeForce |-> Some(0), toeOffForce |-> Some(0)]

MaxStatsSessions == 2
MaxNow == 13

\* one domain is populated in a run: each query reads its own table only
NextStats ==
    \/ \E a \in {GoodPosture, PoorPosture} :
          /\ gaitSessions = << >>
          /\ Len(postureSessions) < MaxStatsSessions
          /\ AnalyzePosture(a)
    \/ \E a \in {NormalGait, EndpointGait} :
          /\ postureSessions = << >>
          /\ Len(gaitSessions) < MaxStatsSessions
          /\ AnalyzeGait(a)
    \/ (now < MaxNow /\ Tick)
    \/ GetPostureStats
    \/ GetGaitStats

SpecStats == InitStore /\ [][NextStats]_vars

MaxImprovementSessions == 10

NextImprovement ==
    \/ \E a \in {GoodPosture, PoorPosture} :
          /\ Len(postureSessions) < MaxImprovementSessions
          /\ AnalyzePosture(a)
    \/ GetPostureStats

SpecImprovement == InitStore /\ [][NextImprovement]_vars

----------------------------------------------------------------------------
(* Statistics properties *)

\* reading a property of a returned object: undefined when it is not there
Field(obj, name) == IF name \in DOMAIN obj THEN Some(obj[name]) ELSE None

IsPostureStatsCall == result.op = "getPostureStats" /\ result.at = now
IsGaitStatsCall == result.op = "getGaitStats" /\ result.at = now

\* C7: on an empty record set the statistics are all zero with an empty
\* trend list: total count, every mean, every classification percentage and,
\* for posture, the improvement rate are 0 and weeklyTrend is [].
C7_EmptyStatsAllZero ==
    /\ (IsPostureStatsCall /\ postureSessions = << >>) =>
         /\ Field(result.value, "totalSessions") = Some(0)
         /\ Field(result.value, "averageScore") = Some(0)
         /\ Field(result.value, "goodPosturePercentage") = Some(0)
         /\ Field(result.value, "weeklyTrend") = Some(<< >>)
         /\ result.value.advancedStats.handFoldingPercentage = 0
         /\ result.value.advancedStats.kneelingPercentage = 0
         /\ result.value.advancedStats.averagePostureScore = 0
         /\ result.value.advancedStats.averageKeypointConfidence = 0
         /\ Field(result.value, "averageForwardHead") = Some(0)
         /\ Field(result.value, "improvementRate") = Some(Finite(0, 1))
    /\ (IsGaitStatsCall /\ gaitSessions = << >>) =>
         /\ Field(result.value, "totalSessions") = Some(0)
         /\ Field(result.value, "averageSymmetry") = Some(0)
         /\ Field(result.value, "averageCadence") = Some(0)
         /\ Field(result.value, "normalGaitPercentage") = Some(0)
         /\ Field(result.value, "weeklyTrend") = Some(<< >>)

IsStatsCall == IsPostureStatsCall \/ IsGaitStatsCall

\* C8 as stated: weeklyTrend has 7 entries for every record set.
C8_TrendAlwaysSeven ==
    IsStatsCall => Len(result.value.weeklyTrend) = 7

\* C8, amended: weeklyTrend has exactly 7 entries, dated with the 7
\* consecutive days that end on the day of the call, whenever the domain
\* holds at least one record; on an empty record set it is [].
C8_TrendSevenWhenNonEmpty ==
    IsStatsCall =>
        LET trend == result.value.weeklyTrend
        IN IF result.value.totalSessions = 0
           THEN trend = << >>
           ELSE /\ Len(trend) = 7
                /\ \A j \in 1..7 : trend[j].date = LocaleDate(result.at) - (7 - j)

\* statistics over a non-empty domain came back with a trend that has a
\* non-zero day
C8_Witness ==
    /\ IsPostureStatsCall
    /\ Len(postureSessions) = 2
    /\ Len(result.value.weeklyTrend) = 7
    /\ \E j \in 1..7 : result.value.weeklyTrend[j].score = 50

\* the records of the last 7 days and the day windows they fall in
WindowsOf(s, t) ==
    {i \in 0..6 : s.timestamp >= DayStart(t, i) /\ s.timestamp < DayEnd(t, i)}

BucketsPartition(sessions, t) ==
    LET recent == RecentSessions(sessions, t)
    IN /\ \A k \in 1..Len(recent) : Cardinality(WindowsOf(recent[k], t)) = 1
       /\ SumSeq([j \in 1..7 |-> Len(DaySessions(sessions, t, 7 - j))]) = Len(recent)

\* C9: the seven day windows partition the records of the last 7 days: each
\* record with timestamp > now - 7 days is in exactly one window, the window
\* sizes sum to the number of such records, and a window that holds no
\* record scores 0.  (The converse, a score of 0 only for an empty window,
\* is left out: a window of records none of which is "good" scores 0 too.)
C9_BucketsPartitionLastWeek ==
    /\ (IsPostureStatsCall /\ Len(postureSessions) > 0) =>
         /\ BucketsPartition(postureSessions, now)
         /\ \A j \in 1..7 :
              Len(DaySessions(postureSessions, now, 7 - j)) = 0
                 => result.value.weeklyTrend[j].score = 0
    /\ (IsGaitStatsCall /\ Len(gaitSessions) > 0) =>
         /\ BucketsPartition(gaitSessions, now)
         /\ \A j \in 1..7 :
              Len(DaySessions(gaitSessions, now, 7 - j)) = 0
                 => result.value.weeklyTrend[j].symmetry = 0

GoodIn(sessions, from, to) ==
    Cardinality({k \in from..to : sessions[k].classification = "good"})

\* C10: for n >= 2 records in creation order, split at floor(n/2); when the
\* first half holds a "good" record the improvement rate is
\* round((secondPct - firstPct) / firstPct * 100) with the halves' "good"
\* percentages; 5 "good" followed by 5 "poor" records give -100.
C10_ImprovementRateFormula ==
    (IsPostureStatsCall /\ Len(postureSessions) >= 2) =>
        LET n == Len(postureSessions)
            fl == n \div 2
            sl == n - fl
            fg == GoodIn(postureSessions, 1, fl)
            sg == GoodIn(postureSessions, fl + 1, n)
        IN /\ fg > 0 =>
                result.value.improvementRate
                    = Finite(Round((sg * fl - fg * sl) * 100, fg * sl), 1)
           /\ (n = 10 /\ fg = 5 /\ sg = 0 /\
               \A k \in 6..10 : postureSessions[k].classification = "poor") =>
                result.value.improvementRate = Finite(-100, 1)

\* statistics were read over 5 "good" records followed by 5 "poor" ones
C10_Witness ==
    /\ IsPostureStatsCall
    /\ Len(postureSessions) = 10
    /\ \A k \in 1..5 : postureSessions[k].classification = "good"
    /\ \A k \in 6..10 : postureSessions[k].classification = "poor"
    /\ result.value.improvementRate.kind = "finite"
    /\ result.value.improvementRate.p < 0

----------------------------------------------------------------------------
(* generateReport: the posture section *)

\* the 10 of `.slice(-10)`
RecentLimit == 10

\* mutant: `.slice(0, 10)`
LastTen_FirstTen(s) == SubSeq(s, 1, IF Len(s) > RecentLimit THEN RecentLimit ELSE Len(s))

\* `.slice(-10)`
LastTen(s) == SubSeq(s, IF Len(s) > RecentLimit THEN Len(s) - RecentLimit + 1 ELSE 1, Len(s))

ValidSessions_Unfiltered(sessions) == sessions

\* `postureSessions.filter(s => s.forwardHeadAngle <= 30)`
ValidSessions(sessions) == SelectSeq(sessions, LAMBDA s : s.forwardHeadAngle <= 30)

\* the values a reduce runs over
Column(s, field) == [k \in 1..Len(s) |-> s[k][field]]

\* `Math.abs(s.shoulderTilt)` and `s.postureScore || 0` under a reduce
AbsAll(values) == [k \in 1..Len(values) |-> Abs(values[k])]
OrZeroAll(values) == [k \in 1..Len(values) |-> OrZero(values[k])]

\* `s.sittingPosition || 'unknown'`
PositionKey(s) == IF s.sittingPosition = None THEN "unknown" ELSE s.sittingPosition[1]

PositionCount(recent, key) ==
    Len(SelectSeq(recent, LAMBDA s : PositionKey(s) = key))

FirstSeen(recent, key) ==
    CHOOSE k \in 1..Len(recent) :
        /\ PositionKey(recent[k]) = key
        /\ \A m \in 1..(k - 1) : PositionKey(recent[m]) # key

\* first entry of the entries sorted by count, descending; the sort is stable
\* and the keys are in order of first appearance
DominantSittingPosition(recent) ==
    LET keys == {PositionKey(recent[k]) : k \in 1..Len(recent)}
    IN CHOOSE key \in keys :
         \A other \in keys :
            \/ PositionCount(recent, key) > PositionCount(recent, other)
            \/ /\ PositionCount(recent, key) = PositionCount(recent, other)
               /\ FirstSeen(recent, key) <= FirstSeen(recent, other)

LowRisk == [riskLevel |-> "LOW", riskFactors |-> << >>]

Factor(r, level, factor) ==
    [riskLevel |-> level, riskFactors |-> Append(r.riskFactors, factor)]

\* mutant: the step assigns "MODERATE" without looking at the level
ModerateIfLow_Always(level) == "MODERATE"

\* `riskLevel = riskLevel === "LOW" ? "MODERATE" : riskLevel`
ModerateIfLow(level) == IF level = "LOW" THEN "MODERATE" ELSE level

ForwardHeadRisk(avgForwardHead, r) ==
    IF JsGt(avgForwardHead, 15) THEN Factor(r, "HIGH", "High forward head posture")
    ELSE IF JsGt(avgForwardHead, 10)
    THEN Factor(r, ModerateIfLow(r.riskLevel), "Moderate forward head posture")
    ELSE r

ShoulderRisk(avgShoulderTilt, r) ==
    IF JsGt(avgShoulderTilt, 10) THEN Factor(r, "HIGH", "Significant shoulder imbalance")
    ELSE IF JsGt(avgShoulderTilt, 5)
    THEN Factor(r, ModerateIfLow(r.riskLevel), "Minor shoulder imbalance")
    ELSE r

SpineRisk(avgSpineAlignment, r) ==
    IF JsLt(avgSpineAlignment, 70) THEN Factor(r, "HIGH", "Poor spinal alignment")
    ELSE IF JsLt(avgSpineAlignment, 80)
    THEN Factor(r, ModerateIfLow(r.riskLevel), "Suboptimal spinal alignment")
    ELSE r

HunchbackRisk(dominant, r) ==
    IF dominant = "hunchback"
    THEN Factor(r, ModerateIfLow(r.riskLevel), "Frequent hunchback posture")
    ELSE r

PostureRisk(avgForwardHead, avgShoulderTilt, avgSpineAlignment, dominant) ==
    HunchbackRisk(dominant,
        SpineRisk(avgSpineAlignment,
            ShoulderRisk(avgShoulderTilt,
                ForwardHeadRisk(avgForwardHead, LowRisk))))

\* mutant: the string is pushed twice
PushIf_Twice(recs, cond, text) == IF cond THEN Append(Append(recs, text), text) ELSE recs

\* `if (cond) recommendations.push(text)`
PushIf(recs, cond, text) == IF cond THEN Append(recs, text) ELSE recs

\* 'Improving' / 'Declining' / 'Stable'
TrendLabel(delta) ==
    IF JsGt(delta, 0) THEN "Improving" ELSE IF JsLt(delta, 0) THEN "Declining" ELSE "Stable"

\* first half / second half averages of a column and their difference
HalvesDelta(values) ==
    LET mid == Half(Len(values))
    IN JsSub(Average(SliceFrom(values, mid)), Average(SliceTo(values, mid)))

PostureRecommendations(recs, m) ==
    LET r1 == IF JsGt(m.avgForwardHead, 15)
              THEN Append(recs, "URGENT: Reduce forward head posture - adjust monitor height to eye level, use ergonomic workstation setup")
              ELSE PushIf(recs, JsGt(m.avgForwardHead, 10),
                          "Monitor forward head position throughout the day - set hourly posture reminders")
        r2 == PushIf(r1, JsGt(m.avgShoulderTilt, 10),
                     "Address shoulder imbalance - check desk height, keyboard position, and consider shoulder strengthening exercises")
        r3 == PushIf(r2, JsLt(m.avgSpineAlignment, 80),
                     "Improve spinal alignment - use lumbar support, practice spine-strengthening exercises, maintain neutral spine during work")
        r4 == PushIf(r3, m.dominantSittingPosition = "hunchback",
                     "Correct hunchback posture - practice chest opening stretches, strengthen upper back muscles, maintain upright sitting")
        r5 == PushIf(r4, 2 * m.handFoldingSessions > m.sessionsAnalyzed,
                     "Reduce hand folding habit - keep arms relaxed at sides, use proper keyboard positioning")
        r6 == PushIf(r5, 10 * m.kneelingSessions > 3 * m.sessionsAnalyzed,
                     "Avoid kneeling while sitting - maintain both feet flat on ground for proper posture support")
        r7 == IF JsLt(m.avgPostureScore, 70)
              THEN Append(r6, "Overall posture improvement needed - consider ergonomic assessment, posture training, and regular movement breaks")
              ELSE PushIf(r6, JsGt(m.avgPostureScore, 85),
                          "Excellent posture maintenance - continue current practices and consider advanced ergonomic optimizations")
        r8 == IF JsLt(m.improvementTrend, -5)
              THEN Append(r7, "Posture declining - review recent changes in workstation or habits, consider professional ergonomic consultation")
              ELSE PushIf(r7, JsGt(m.improvementTrend, 5),
                          "Great improvement trend - maintain current practices and continue monitoring progress")
    IN PushIf(r8, JsLt(m.avgKeypointConfidence, 70),
              "Improve measurement accuracy - ensure good lighting and clear camera view for more reliable posture analysis")

\* the figures computed from recentSessions (non-empty)
PostureMetrics(recent) ==
    LET scores == OrZeroAll(Column(recent, "postureScore"))
        dominant == DominantSittingPosition(recent)
    IN [used |-> Column(recent, "_id"),
        sessionsAnalyzed |-> Len(recent),
        goodSessions |-> CountLabel(recent, "good"),
        fairSessions |-> CountLabel(recent, "fair"),
        poorSessions |-> CountLabel(recent, "poor"),
        avgForwardHead |-> Average(Column(recent, "forwardHeadAngle")),
        avgShoulderTilt |-> Average(AbsAll(Column(recent, "shoulderTilt"))),
        avgSpineAlignment |-> Average(Column(recent, "spineAlignment")),
        avgPostureScore |-> Average(scores),
        dominantSittingPosition |-> dominant,
        dominantCount |-> PositionCount(recent, dominant),
        handFoldingSessions |-> CountTruthy(recent, "handFolding"),
        kneelingSessions |-> CountTruthy(recent, "kneeling"),
        avgKeypointConfidence |->
            Average(OrZeroAll(Column(recent, "keypointConfidence"))),
        improvementTrend |-> HalvesDelta(scores)]

\* what the posture block appends to `summary`
PostureSection(m) ==
    LET risk == PostureRisk(m.avgForwardHead, m.avgShoulderTilt, m.avgSpineAlignment,
                            m.dominantSittingPosition)
    IN [kind |-> "analysis",
        used |-> m.used,
        quality |-> <<m.goodSessions, m.fairSessions, m.poorSessions>>,
        overallScore |-> ToFixed1(m.avgPostureScore),
        trend |-> TrendLabel(m.improvementTrend),
        trendPoints |-> ToFixed1(m.improvementTrend),
        forwardHead |-> ToFixed1(m.avgForwardHead),
        shoulderTilt |-> ToFixed1(m.avgShoulderTilt),
        spineAlignment |-> ToFixed1(m.avgSpineAlignment),
        dominantPosition |-> <<m.dominantSittingPosition, m.dominantCount>>,
        handFolding |-> <<m.handFoldingSessions, m.sessionsAnalyzed,
                          ToFixed1(Finite(m.handFoldingSessions * 100, m.sessionsAnalyzed))>>,
        kneeling |-> <<m.kneelingSessions, m.sessionsAnalyzed,
                       ToFixed1(Finite(m.kneelingSessions * 100, m.sessionsAnalyzed))>>,
        confidence |-> ToFixed1(m.avgKeypointConfidence),
        sessionsAnalyzed |-> m.sessionsAnalyzed,
        riskLevel |-> risk.riskLevel,
        riskFactors |-> risk.riskFactors]

\* "No valid posture sessions available for analysis. ..."
PosturePlaceholder == [kind |-> "placeholder", domain |-> "posture"]

\* the section is not part of a report of this type
NoSection == [kind |-> "absent"]

WantsPosture(type) == type = "posture" \/ type = "combined"
WantsGait(type) == type = "gait" \/ type = "combined"

\* mutant: nothing is written when no usable record is there
PosturePart_Silent(type, sessions, recs) ==
    IF WantsPosture(type) /\ Len(LastTen(ValidSessions(sessions))) > 0
    THEN [section |-> PostureSection(PostureMetrics(LastTen(ValidSessions(sessions)))),
          recommendations |->
              PostureRecommendations(recs, PostureMetrics(LastTen(ValidSessions(sessions))))]
    ELSE [section |-> NoSection, recommendations |-> recs]

\* summary text and recommendations after the posture block
PosturePart(type, sessions, recs) ==
    IF ~WantsPosture(type) THEN [section |-> NoSection, recommendations |-> recs]
    ELSE LET recent == LastTen(ValidSessions(sessions))
         IN IF Len(recent) > 0
            THEN [section |-> PostureSection(PostureMetrics(recent)),
                  recommendations |-> PostureRecommendations(recs, PostureMetrics(recent))]
            ELSE [section |-> PosturePlaceholder, recommendations |-> recs]

----------------------------------------------------------------------------
(* generateReport: the gait section *)

\* Math.abs(x - c) > k
JsAbsDiffGt(x, c, k) == IsFinite(x) /\ Abs(x.p - c * x.q) > k * x.q

\* `x ? x.toFixed(1) + unit : 'Not available'`
FixedOrNotAvailable(x) == IF JsTruthy(x) THEN Some(ToFixed1(x)) ELSE None

\* `recentSessions.filter(s => s.analysisType === 'esp32-wifi')`
IsEsp32Session(s) == s.analysisType = "esp32-wifi"

Esp32Sessions(recent) == SelectSeq(recent, IsEsp32Session)

\* average of an optional field over the sessions where it is truthy
AverageOfTruthy(values) ==
    LET truthy == SelectSeq(values, TruthyNum)
    IN Average([k \in 1..Len(truthy) |-> truthy[k][1]])

SymmetryRisk(avgSymmetry, r) ==
    IF JsLt(avgSymmetry, 70) THEN Factor(r, "HIGH", "Poor gait symmetry")
    ELSE IF JsLt(avgSymmetry, 80)
    THEN Factor(r, ModerateIfLow(r.riskLevel), "Moderate gait asymmetry")
    ELSE r

BalanceRisk(avgLeftRightBalance, r) ==
    IF JsAbsDiffGt(avgLeftRightBalance, 50, 10)
    THEN Factor(r, "HIGH", "Significant left-right imbalance")
    ELSE IF JsAbsDiffGt(avgLeftRightBalance, 50, 5)
    THEN Factor(r, ModerateIfLow(r.riskLevel), "Minor left-right imbalance")
    ELSE r

CadenceRisk(avgCadence, r) ==
    IF JsLt(avgCadence, 100) \/ JsGt(avgCadence, 140)
    THEN Factor(r, ModerateIfLow(r.riskLevel), "Abnormal cadence pattern")
    ELSE r

GaitRisk(avgSymmetry, avgLeftRightBalance, avgCadence) ==
    CadenceRisk(avgCadence,
        BalanceRisk(avgLeftRightBalance,
            SymmetryRisk(avgSymmetry, LowRisk)))

GaitRecommendations(recs, m) ==
    LET r1 == IF JsLt(m.avgSymmetry, 70)
              THEN Append(recs, "URGENT: Poor gait symmetry detected - consider physical therapy consultation and gait training exercises")
              ELSE PushIf(recs, JsLt(m.avgSymmetry, 80),
                          "Improve gait symmetry - practice balance exercises, single-leg stands, and walking drills")
        r2 == PushIf(r1, JsAbsDiffGt(m.avgLeftRightBalance, 50, 10),
                     "Address left-right imbalance - focus on bilateral strengthening exercises and gait symmetry training")
        r3 == IF JsLt(m.avgCadence, 100)
              THEN Append(r2, "Increase walking pace - practice walking with metronome at 110-120 BPM for improved cadence")
              ELSE PushIf(r2, JsGt(m.avgCadence, 140),
                          "Reduce walking pace - focus on longer strides rather than faster steps for better efficiency")
        r4 == PushIf(r3, m.asymmetricSessions > m.normalSessions,
                     "Frequent asymmetric gait patterns - consider biomechanical assessment and corrective exercises")
        r5 == PushIf(r4, 2 * m.irregularSessions > m.normalSessions,
                     "Address irregular gait patterns - practice consistent walking rhythm and consider balance training")
    IN IF JsLt(m.symmetryImprovement, -5)
       THEN Append(r5, "Gait quality declining - review recent changes in activity or footwear, consider professional assessment")
       ELSE PushIf(r5, JsGt(m.symmetryImprovement, 5),
                   "Excellent gait improvement - maintain current training and continue monitoring progress")

\* the figures computed from recentSessions (non-empty)
GaitMetrics(recent) ==
    LET symmetry == Column(recent, "symmetryScore")
        esp32 == Esp32Sessions(recent)
    IN [used |-> Column(recent, "_id"),
        sessionsAnalyzed |-> Len(recent),
        normalSessions |-> CountLabel(recent, "normal"),
        asymmetricSessions |-> CountLabel(recent, "asymmetric"),
        irregularSessions |-> CountLabel(recent, "irregular"),
        avgSymmetry |-> Average(symmetry),
        avgCadence |-> Average(Column(recent, "cadence")),
        avgStrideLength |-> AverageOfTruthy(Column(recent, "strideLength")),
        avgLeftRightBalance |-> Average(Column(recent, "leftRightBalance")),
        esp32Sessions |-> Len(esp32),
        avgStancePhase |-> AverageOfTruthy(Column(esp32, "stancePhase")),
        avgSwingPhase |-> AverageOfTruthy(Column(esp32, "swingPhase")),
        symmetryImprovement |-> HalvesDelta(symmetry)]

\* "ESP32 SENSOR ANALYSIS", written when esp32Sessions.length > 0
SensorSection(m) ==
    IF m.esp32Sessions > 0
    THEN Some([stancePhase |-> FixedOrNotAvailable(m.avgStancePhase),
               swingPhase |-> FixedOrNotAvailable(m.avgSwingPhase),
               sensorSessions |-> <<m.esp32Sessions, m.sessionsAnalyzed>>])
    ELSE None

\* what the gait block appends to `summary`
GaitSection(m) ==
    LET risk == GaitRisk(m.avgSymmetry, m.avgLeftRightBalance, m.avgCadence)
    IN [kind |-> "analysis",
        used |-> m.used,
        quality |-> <<m.normalSessions, m.asymmetricSessions, m.irregularSessions>>,
        overallSymmetry |-> ToFixed1(m.avgSymmetry),
        trend |-> TrendLabel(m.symmetryImprovement),
        trendPoints |-> ToFixed1(m.symmetryImprovement),
        cadence |-> ToFixed1(m.avgCadence),
        strideLength |-> FixedOrNotAvailable(m.avgStrideLength),
        leftRightBalance |-> ToFixed1(m.avgLeftRightBalance),
        sensor |-> SensorSection(m),
        riskLevel |-> risk.riskLevel,
        riskFactors |-> risk.riskFactors]

\* "No gait sessions available for analysis. ..."
GaitPlaceholder == [kind |-> "placeholder", domain |-> "gait"]

\* summary text and recommendations after the gait block
GaitPart(type, sessions, recs) ==
    IF ~WantsGait(type) THEN [section |-> NoSection, recommendations |-> recs]
    ELSE LET recent == LastTen(sessions)
         IN IF Len(recent) > 0
            THEN [section |-> GaitSection(GaitMetrics(recent)),
                  recommendations |-> GaitRecommendations(recs, GaitMetrics(recent))]
            ELSE [section |-> GaitPlaceholder, recommendations |-> recs]

----------------------------------------------------------------------------
(* generateReport: executive summary and insert *)

\* args.type.toUpperCase()
ToUpperCase(type) ==
    CASE type = "posture" -> "POSTURE"
      [] type = "gait" -> "GAIT"
      [] type = "combined" -> "COMBINED"

\* "Posture Quality Score" and "Primary Focus" of KEY TAKEAWAYS
PostureTakeaway(type, sessions) ==
    IF WantsPosture(type) /\ Len(ValidSessions(sessions)) > 0
    THEN LET avgScore == Average(OrZeroAll(Column(LastTen(ValidSessions(sessions)),
                                                  "postureScore")))
         IN Some([score |-> ToFixed1(avgScore),
                  focus |-> IF JsLt(avgScore, 70) THEN "Posture improvement needed"
                            ELSE IF JsGt(avgScore, 85) THEN "Maintain excellent posture"
                            ELSE "Continue good practices"])
    ELSE None

\* "Gait Symmetry Score" and "Primary Focus" of KEY TAKEAWAYS
GaitTakeaway(type, sessions) ==
    IF WantsGait(type) /\ Len(sessions) > 0
    THEN LET avgSymmetry == Average(Column(LastTen(sessions), "symmetryScore"))
         IN Some([score |-> ToFixed1(avgSymmetry),
                  focus |-> IF JsLt(avgSymmetry, 80) THEN "Gait symmetry improvement needed"
                            ELSE "Maintain good gait patterns"])
    ELSE None

\* `if (recommendations.length === 0) recommendations.push(...)`
ReportRecommendations(recs) ==
    IF Len(recs) = 0 THEN <<"Continue maintaining good biomechanical patterns">> ELSE recs

\* `const userId = "anonymous-user"`
UserId == "anonymous-user"

\* the document generateReport hands to ctx.db.insert("reports", ...)
ReportDoc(id, t, type, title, sessionIds, posture, gait) ==
    LET posturePart == PosturePart(type, posture, << >>)
        gaitPart == GaitPart(type, gait, posturePart.recommendations)
        recs == ReportRecommendations(gaitPart.recommendations)
    IN [_id |-> id,
        userId |-> UserId,
        sessionIds |-> sessionIds,
        type |-> type,
        title |-> title,
        summary |->
           [posture |-> posturePart.section,
            gait |-> gaitPart.section,
            executive |->
               [reportType |-> ToUpperCase(type),
                analysisPeriod |-> Len(sessionIds),
                totalRecommendations |-> Len(recs),
                generated |-> t,
                postureTakeaway |-> PostureTakeaway(type, posture),
                gaitTakeaway |-> GaitTakeaway(type, gait)]],
        recommendations |-> recs,
        createdAt |-> t]

GenerateReport(sessionIds, type, title) ==
    /\ reports' = Append(reports,
            ReportDoc(nextId, now, type, title, sessionIds, postureSessions, gaitSessions))
    /\ nextId' = nextId + 1
    /\ result' = [op |-> "generateReport", value |-> nextId]
    /\ UNCHANGED <<classifierVars, postureSessions, gaitSessions, now, loop>>

\* index by_user_and_created
CreatedBefore(x, y) ==
    \/ x.createdAt < y.createdAt
    \/ (x.createdAt = y.createdAt /\ x._id < y._id)

RECURSIVE InsertCreated(_, _)
InsertCreated(x, s) ==
    IF s = << >> THEN <<x>>
    ELSE IF CreatedBefore(x, Head(s)) THEN <<x>> \o s
    ELSE <<Head(s)>> \o InsertCreated(x, Tail(s))

RECURSIVE ByUserAndCreated(_)
ByUserAndCreated(s) ==
    IF s = << >> THEN << >> ELSE InsertCreated(Head(s), ByUserAndCreated(Tail(s)))

UserReportsLimit == 20

GetUserReports ==
    /\ result' = [op |-> "getUserReports",
                  value |-> Take(Reverse(ByUserAndCreated(reports)), UserReportsLimit)]
    /\ UNCHANGED <<classifierVars, postureSessions, gaitSessions, reports, nextId, now, loop>>

\* ctx.db.get(id): the document, or null
Get(table, id) ==
    IF id \in Ids(table)
    THEN Some(table[CHOOSE i \in 1..Len(table) : table[i]._id = id])
    ELSE None

\* `!report || report.userId !== userId`
ReportNotFound(report) == report = None \/ report[1].userId # UserId

GetReport(reportId) ==
    /\ result' = IF ReportNotFound(Get(reports, reportId))
                 THEN [op |-> "getReport", reportId |-> reportId,
                       error |-> "Report not found"]
                 ELSE [op |-> "getReport", reportId |-> reportId,
                       value |-> Get(reports, reportId)[1]]
    /\ UNCHANGED <<classifierVars, postureSessions, gaitSessions, reports, nextId, now, loop>>

----------------------------------------------------------------------------
(* Deleting mutations *)

\* mutant: the loop stops after its first record
DeleteEach_OnlyFirst(table, docs) ==
    IF docs = << >> THEN table ELSE DeleteId(table, Head(docs)._id)

\* `for (const session of sessions) await ctx.db.delete(session._id)`
RECURSIVE DeleteEach(_, _)
DeleteEach(table, docs) ==
    IF docs = << >> THEN table
    ELSE DeleteEach(DeleteId(table, Head(docs)._id), Tail(docs))

\* mutant: the query has no filter on forwardHeadAngle
CleanupBadPostureData_Unfiltered ==
    /\ postureSessions' = << >>
    /\ result' = [op |-> "cleanupBadPostureData", deletedCount |-> Len(postureSessions)]
    /\ UNCHANGED <<classifierVars, gaitSessions, reports, nextId, now, loop>>

CleanupBadPostureData ==
    LET badSessions == SelectSeq(postureSessions, LAMBDA s : s.forwardHeadAngle > 30)
    IN /\ postureSessions' = DeleteEach(postureSessions, badSessions)
       /\ result' = [op |-> "cleanupBadPostureData", deletedCount |-> Len(badSessions)]
       /\ UNCHANGED <<classifierVars, gaitSessions, reports, nextId, now, loop>>

\* mutant: the report is deleted without a look-up
DeleteReport_Unchecked(reportId) ==
    /\ reports' = DeleteId(reports, reportId)
    /\ result' = [op |-> "deleteReport", reportId |-> reportId, success |-> TRUE]
    /\ UNCHANGED <<classifierVars, postureSessions, gaitSessions, nextId, now, loop>>

DeleteReport(reportId) ==
    IF ReportNotFound(Get(reports, reportId))
    THEN /\ result' = [op |-> "deleteReport", reportId |-> reportId,
                       error |-> "Report not found or access denied"]
         /\ UNCHANGED <<classifierVars, postureSessions, gaitSessions, reports, nextId, now, loop>>
    ELSE /\ reports' = DeleteId(reports, reportId)
         /\ result' = [op |-> "deleteReport", reportId |-> reportId, success |-> TRUE]
         /\ UNCHANGED <<classifierVars, postureSessions, gaitSessions, nextId, now, loop>>

DeleteAllPostureSessions ==
    /\ postureSessions' = DeleteEach(postureSessions, postureSessions)
    /\ result' = [op |-> "deleteAllPostureSessions", deletedCount |-> Len(postureSessions)]
    /\ UNCHANGED <<classifierVars, gaitSessions, reports, nextId, now, loop>>

DeleteAllGaitSessions ==
    /\ gaitSessions' = DeleteEach(gaitSessions, gaitSessions)
    /\ result' = [op |-> "deleteAllGaitSessions", deletedCount |-> Len(gaitSessions)]
    /\ UNCHANGED <<classifierVars, postureSessions, reports, nextId, now, loop>>

----------------------------------------------------------------------------
(* The application: every function of the store, in any order *)

\* accepted at write time, filtered out by generateReport
BadPosture ==
    [forwardHeadAngle |-> 35, shoulderTilt |-> 2, neckAngle |-> 5, spineAlignment |-> 90,
     duration |-> 30, sittingPosition |-> None, handFolding |-> None, kneeling |-> None,
     postureScore |-> None, keypointConfidence |-> None]

\* every optional field present, no rule fires
UprightPosture ==
    [forwardHeadAngle |-> 8, shoulderTilt |-> -6, neckAngle |-> 5, spineAlignment |-> 88,
     duration |-> 60, sittingPosition |-> Some("straight"), handFolding |-> Some(FALSE),
     kneeling |-> Some(FALSE), postureScore |-> Some(82), keypointConfidence |-> Some(90)]

StorePostureSamples == {UprightPosture, BadPosture}
StoreGaitSamples == {EndpointGait}
ReportTypes == {"posture", "gait", "combined"}

\* a report id that was never handed out
UnknownId == 0

MaxInserts == 2
MaxClock == 1

Next ==
    \/ \E a \in StorePostureSamples : nextId <= MaxInserts /\ AnalyzePosture(a)
    \/ \E a \in StoreGaitSamples : nextId <= MaxInserts /\ AnalyzeGait(a)
    \/ \E limit \in {None, Some(1)} : GetPostureHistory(limit)
    \/ \E limit \in {None, Some(1)} : GetGaitHistory(limit)
    \/ GetPostureStats
    \/ GetGaitStats
    \/ \E type \in ReportTypes :
          nextId <= MaxInserts /\ GenerateReport(<< >>, type, "Report")
    \/ GetUserReports
    \/ \E id \in Ids(reports) \cup {UnknownId} : GetReport(id)
    \/ \E id \in Ids(reports) \cup {UnknownId} : DeleteReport(id)
    \/ CleanupBadPostureData
    \/ DeleteAllPostureSessions
    \/ DeleteAllGaitSessions
    \/ (now < MaxClock /\ Tick)

Spec == InitStore /\ [][Next]_vars

----------------------------------------------------------------------------
(* Store properties *)

\* C5: a history read that directly follows an insert returns, as its first
\* record, the record just inserted: its classification and recommendations
\* are the classifier's for the same sample (and the mutation's return
\* values), and its sample fields are the arguments.
C5_RoundTrip ==
    [][/\ (result.op = "analyzePosture" /\ result'.op = "getPostureHistory") =>
            LET r == Head(result'.value)
            IN /\ r._id = result.sessionId
               /\ r.classification = ClassifyPosture(args).classification
               /\ r.recommendations = ClassifyPosture(args).recommendations
               /\ r.classification = result.classification
               /\ r.recommendations = result.recommendations
               /\ SampleOf(r, PostureFields) = args
       /\ (result.op = "analyzeGait" /\ result'.op = "getGaitHistory") =>
            LET r == Head(result'.value)
            IN /\ r._id = result.sessionId
               /\ r.classification = ClassifyGait(args).classification
               /\ r.recommendations = ClassifyGait(args).recommendations
               /\ r.classification = result.classification
               /\ r.recommendations = result.recommendations
               /\ SampleOf(r, GaitFields) = args]_vars

\* a history read returned the latest record ahead of an older record with
\* another label
C5_Witness ==
    /\ result.op = "getPostureHistory"
    /\ Len(result.value) = 2
    /\ result.value[1]._id > result.value[2]._id
    /\ result.value[1].timestamp > result.value[2].timestamp
    /\ result.value[1].classification # result.value[2].classification
    /\ SampleOf(result.value[1], PostureFields) = args

\* every document that is in the table before and after the step is the same
DocsKept(old, new) ==
    \A i \in 1..Len(old) : \A j \in 1..Len(new) :
        old[i]._id = new[j]._id => old[i] = new[j]

Inserted(old, new) == Ids(new) \ Ids(old)
Removed(old, new) == Ids(old) \ Ids(new)

\* C6: no step changes a stored session record or report; documents appear
\* only by the inserting mutation of their table and disappear only by a
\* deleting mutation.
C6_PersistedNeverMutated ==
    [][/\ DocsKept(postureSessions, postureSessions')
       /\ DocsKept(gaitSessions, gaitSessions')
       /\ DocsKept(reports, reports')
       /\ Inserted(postureSessions, postureSessions') # {} => result'.op = "analyzePosture"
       /\ Inserted(gaitSessions, gaitSessions') # {} => result'.op = "analyzeGait"
       /\ Inserted(reports, reports') # {} => result'.op = "generateReport"
       /\ Removed(postureSessions, postureSessions') # {} =>
            result'.op \in {"cleanupBadPostureData", "deleteAllPostureSessions"}
       /\ Removed(gaitSessions, gaitSessions') # {} => result'.op = "deleteAllGaitSessions"
       /\ Removed(reports, reports') # {} => result'.op = "deleteReport"]_vars

\* a clean-up has deleted one record and left the other one stored
C6_Witness ==
    /\ result.op = "cleanupBadPostureData"
    /\ result.deletedCount = 1
    /\ Len(postureSessions) = 1
    /\ postureSessions[1].classification = "good"
    /\ postureSessions[1].postureScore = Some(82)

----------------------------------------------------------------------------
(* Specification of the report composer: a store of a few records of both
   domains, reports generated from it and the dashboard statistics read *)

MaxReportSessions == 3

NextReport ==
    \/ \E a \in {UprightPosture, PoorPosture, BadPosture} :
          /\ reports = << >>
          /\ Len(postureSessions) + Len(gaitSessions) < MaxReportSessions
          /\ AnalyzePosture(a)
    \/ \E a \in {NormalGait, EndpointGait} :
          /\ reports = << >>
          /\ Len(postureSessions) + Len(gaitSessions) < MaxReportSessions
          /\ AnalyzeGait(a)
    \/ \E type \in ReportTypes : reports = << >> /\ GenerateReport(<< >>, type, "Report")
    \/ GetPostureStats
    \/ GetGaitStats

SpecReport == InitStore /\ [][NextReport]_vars

----------------------------------------------------------------------------
(* Report properties *)

\* the report the last generateReport call has stored
IsReportCall == result.op = "generateReport"
GeneratedReport == Get(reports, result.value)[1]

\* the stored posture record of an id
PostureRecord(id) == Get(postureSessions, id)[1]

\* C11: a generated report is the report the same call would have stored had
\* the records with forwardHeadAngle > 30 not been in the store, and every
\* record its posture figures were computed from has forwardHeadAngle <= 30;
\* getPostureStats over the same store counts every record, those with
\* forwardHeadAngle > 30 included, in totalSessions and averageForwardHead.
C11_ReportIgnoresInvalidRecords ==
    /\ IsReportCall =>
         /\ GeneratedReport =
              ReportDoc(GeneratedReport._id, GeneratedReport.createdAt,
                        GeneratedReport.type, GeneratedReport.title,
                        GeneratedReport.sessionIds,
                        SelectSeq(postureSessions, LAMBDA s : ~(s.forwardHeadAngle > 30)),
                        gaitSessions)
         /\ GeneratedReport.summary.posture.kind = "analysis" =>
              \A k \in 1..Len(GeneratedReport.summary.posture.used) :
                 PostureRecord(GeneratedReport.summary.posture.used[k]).forwardHeadAngle <= 30
    /\ (IsPostureStatsCall /\ postureSessions # << >>) =>
         /\ result.value.totalSessions = Len(postureSessions)
         /\ result.value.averageForwardHead =
              Round(SumSeq(Column(postureSessions, "forwardHeadAngle")) * 10,
                    Len(postureSessions))

\* a posture report was generated from a store that holds a record with
\* forwardHeadAngle > 30 after two usable ones
C11_Witness ==
    /\ IsReportCall
    /\ Len(postureSessions) = 3
    /\ postureSessions[3].forwardHeadAngle > 30
    /\ GeneratedReport.summary.posture.kind = "analysis"
    /\ GeneratedReport.summary.posture.used = <<1, 2>>
    /\ GeneratedReport.summary.posture.sessionsAnalyzed = 2

----------------------------------------------------------------------------
(* deleteAllPostureSessions / deleteAllGaitSessions step by step: the
   collect(), one ctx.db.delete per record read, the return, with inserts
   of other callers between the steps (a store weaker than one that
   serialises the mutations) *)

TableOf(name) == IF name = "postureSessions" THEN postureSessions ELSE gaitSessions

DeleteAllOp(name) ==
    IF name = "postureSessions" THEN "deleteAllPostureSessions" ELSE "deleteAllGaitSessions"

\* `const sessions = await ctx.db.query(...).withIndex("by_user", ...).collect()`
DeleteAllCollect(name) ==
    /\ loop = NoLoop
    /\ loop' = [table |-> name, op |-> DeleteAllOp(name),
                sessions |-> TableOf(name), next |-> 1]
    /\ UNCHANGED <<classifierVars, postureSessions, gaitSessions, reports, nextId, now, result>>

\* cleanupBadPostureData's collect(): the records with forwardHeadAngle > 30
CleanupCollect ==
    /\ loop = NoLoop
    /\ loop' = [table |-> "postureSessions", op |-> "cleanupBadPostureData",
                sessions |-> SelectSeq(postureSessions,
                                       LAMBDA s : s.forwardHeadAngle > 30),
                next |-> 1]
    /\ UNCHANGED <<classifierVars, postureSessions, gaitSessions, reports, nextId, now, result>>

\* a document put back at its place in creation order
PutBack(table, d) ==
    SelectSeq(table, LAMBDA x : x._id < d._id) \o <<d>>
        \o SelectSeq(table, LAMBDA x : x._id > d._id)

RECURSIVE Restore(_, _)
Restore(table, docs) ==
    IF docs = << >> THEN table ELSE Restore(PutBack(table, Head(docs)), Tail(docs))

\* mutant: the deletes of a failed call are kept
Rollback_None(table, l) == table

\* the three bulk deletes are declared with `mutation({ ... })`: the handler
\* runs as one transaction, and when it throws none of its writes is
\* committed, so the documents the loop had deleted are stored again
Rollback(table, l) == Restore(table, SubSeq(l.sessions, 1, l.next - 1))

\* what the caller sees of a handler that threw
Thrown(l, message) == [op |-> l.op, error |-> message, rolledBack |-> l.next - 1]

\* mutant: the loop leaves the last record it read
LoopDone_SkipsLast(l) == l.next >= Len(l.sessions)

\* `for (const session of sessions)` has run out
LoopDone(l) == l.next > Len(l.sessions)

\* `await ctx.db.delete(session._id)`: deleting a document that is not stored
\* throws, and the mutation ends with that error
DeleteAllStep ==
    /\ loop # NoLoop
    /\ ~LoopDone(loop)
    /\ LET id == loop.sessions[loop.next]._id
       IN IF id \in Ids(TableOf(loop.table))
          THEN /\ postureSessions' = IF loop.table = "postureSessions"
                                     THEN DeleteId(postureSessions, id) ELSE postureSessions
               /\ gaitSessions' = IF loop.table = "gaitSessions"
                                  THEN DeleteId(gaitSessions, id) ELSE gaitSessions
               /\ loop' = [loop EXCEPT !.next = @ + 1]
               /\ UNCHANGED result
          ELSE /\ result' = Thrown(loop, "Delete on nonexistent doc")
               /\ loop' = NoLoop
               /\ postureSessions' = IF loop.table = "postureSessions"
                                     THEN Rollback(postureSessions, loop)
                                     ELSE postureSessions
               /\ gaitSessions' = IF loop.table = "gaitSessions"
                                  THEN Rollback(gaitSessions, loop) ELSE gaitSessions
    /\ UNCHANGED <<classifierVars, reports, nextId, now>>

\* `return { deletedCount: sessions.length }`
DeleteAllReturn ==
    /\ loop # NoLoop
    /\ LoopDone(loop)
    /\ result' = [op |-> loop.op, deletedCount |-> Len(loop.sessions)]
    /\ loop' = NoLoop
    /\ UNCHANGED <<classifierVars, postureSessions, gaitSessions, reports, nextId, now>>

MaxDeleteInserts == 4

NextDelete ==
    \/ \E a \in StorePostureSamples : nextId <= MaxDeleteInserts /\ AnalyzePosture(a)
    \/ \E a \in StoreGaitSamples : nextId <= MaxDeleteInserts /\ AnalyzeGait(a)
    \/ \E name \in {"postureSessions", "gaitSessions"} : DeleteAllCollect(name)
    \/ DeleteAllStep
    \/ DeleteAllReturn

SpecDelete == InitStore /\ [][NextDelete]_vars

\* the step on which a delete-all mutation ends, and its table after the step
DeleteAllEnds == loop # NoLoop /\ loop' = NoLoop
TableAfter(name) == IF name = "postureSessions" THEN postureSessions' ELSE gaitSessions'

\* C12: a delete-all mutation that read N records ends without an error and
\* returns deletedCount = N, whatever inserts ran between its steps; none of
\* the N records is stored afterwards, and the records of the domain that
\* are stored afterwards are the ones inserted after the read.
C12_DeleteAllAcknowledgesEveryRecordRead ==
    [][DeleteAllEnds =>
         /\ result'.op = DeleteAllOp(loop.table)
         /\ "error" \notin DOMAIN result'
         /\ result'.deletedCount = Len(loop.sessions)
         /\ Ids(loop.sessions) \cap Ids(TableAfter(loop.table)) = {}
         /\ \A id \in Ids(TableAfter(loop.table)) : \A old \in Ids(loop.sessions) : id > old
         /\ Len(TableAfter(loop.table)) =
               Cardinality(Ids(TableAfter(loop.table)) \ Ids(loop.sessions))]_vars

\* a delete-all that read two posture records has returned 2 while a record
\* inserted during the loop is stored
C12_Witness ==
    /\ result.op = "deleteAllPostureSessions"
    /\ "deletedCount" \in DOMAIN result
    /\ result.deletedCount = 2
    /\ loop = NoLoop
    /\ Len(postureSessions) = 1
    /\ postureSessions[1]._id = 3
    /\ nextId = 4

----------------------------------------------------------------------------
(* Statistics over a store that changes *)

\* C13: the statistics a read returns are those of the records stored at
\* that moment: totalSessions is the number of records of the domain in the
\* store; a read right after an insert counts the inserted record, and a read
\* right after a delete-all returns the empty statistics.
C13_StatsRecomputedOnEveryRead ==
    /\ [](IsPostureStatsCall =>
            /\ result.value = PostureStats(postureSessions, now)
            /\ result.value.totalSessions = Len(postureSessions))
    /\ [](IsGaitStatsCall =>
            /\ result.value = GaitStats(gaitSessions, now)
            /\ result.value.totalSessions = Len(gaitSessions))
    /\ [][/\ (result.op = "analyzePosture" /\ result'.op = "getPostureStats") =>
               /\ result.sessionId \in Ids(postureSessions)
               /\ result'.value.totalSessions = Len(postureSessions)
               /\ result'.value.totalSessions >= 1
          /\ (result.op = "analyzeGait" /\ result'.op = "getGaitStats") =>
               /\ result.sessionId \in Ids(gaitSessions)
               /\ result'.value.totalSessions = Len(gaitSessions)
               /\ result'.value.totalSessions >= 1
          /\ (result.op = "deleteAllPostureSessions" /\ result'.op = "getPostureStats") =>
               result'.value = EmptyPostureStats
          /\ (result.op = "deleteAllGaitSessions" /\ result'.op = "getGaitStats") =>
               result'.value = EmptyGaitStats]_vars

\* a read that counts one record: the record inserted after the first
\* record had been deleted
C13_Witness ==
    /\ IsPostureStatsCall
    /\ result.value.totalSessions = 1
    /\ Len(postureSessions) = 1
    /\ postureSessions[1]._id = 2

----------------------------------------------------------------------------
(* generateReport without data *)

\* the step is a generateReport call
ReportIsGenerated == result'.op = "generateReport" /\ result' # result

\* the report a generateReport step stores
NewReport == reports'[Len(reports')]

\* C14: every generateReport call returns an id (no error) and stores exactly
\* one report; a requested domain without a usable record (posture: no record
\* with forwardHeadAngle <= 30, gait: no record) has its placeholder sentence
\* in the summary, a requested domain with usable records has its statistics.
C14_PlaceholderInsteadOfError ==
    [][ReportIsGenerated =>
         /\ "error" \notin DOMAIN result'
         /\ Len(reports') = Len(reports) + 1
         /\ Ids(reports') = Ids(reports) \cup {result'.value}
         /\ NewReport._id = result'.value
         /\ WantsPosture(NewReport.type) =>
              IF \E k \in 1..Len(postureSessions) : postureSessions[k].forwardHeadAngle <= 30
              THEN NewReport.summary.posture.kind = "analysis"
              ELSE NewReport.summary.posture = PosturePlaceholder
         /\ WantsGait(NewReport.type) =>
              IF Len(gaitSessions) > 0
              THEN NewReport.summary.gait.kind = "analysis"
              ELSE NewReport.summary.gait = GaitPlaceholder
         /\ ~WantsPosture(NewReport.type) => NewReport.summary.posture = NoSection
         /\ ~WantsGait(NewReport.type) => NewReport.summary.gait = NoSection]_vars

\* a combined report generated from a store whose only record has
\* forwardHeadAngle > 30: both sections are placeholders
C14_Witness ==
    /\ IsReportCall
    /\ Len(postureSessions) = 1
    /\ postureSessions[1].forwardHeadAngle > 30
    /\ gaitSessions = << >>
    /\ Len(reports) = 1
    /\ GeneratedReport.type = "combined"
    /\ GeneratedReport.summary.posture = PosturePlaceholder
    /\ GeneratedReport.summary.gait = GaitPlaceholder
    /\ GeneratedReport.recommendations = <<"Continue maintaining good biomechanical patterns">>

----------------------------------------------------------------------------
(* Report look-up *)

\* the step is a deleteReport call
ReportDeleteIsCalled == result'.op = "deleteReport" /\ result' # result

\* C15: getReport on an id that is not stored raises "Report not found" and
\* on a stored id returns that report; deleteReport on an id that is not
\* stored raises and leaves the report collection as it was, and on a stored
\* id removes exactly that report and returns success. Every stored report
\* carries the one subject the functions run as.
C15_ReportNotFound ==
    /\ [](\A k \in 1..Len(reports) : reports[k].userId = UserId)
    /\ [](result.op = "getReport" =>
            IF result.reportId \in Ids(reports)
            THEN /\ "error" \notin DOMAIN result
                 /\ result.value \in {reports[k] : k \in 1..Len(reports)}
                 /\ result.value._id = result.reportId
            ELSE /\ "value" \notin DOMAIN result
                 /\ result.error = "Report not found")
    /\ [][ReportDeleteIsCalled =>
            /\ UNCHANGED <<postureSessions, gaitSessions>>
            /\ IF result'.reportId \in Ids(reports)
               THEN /\ "error" \notin DOMAIN result'
                    /\ result'.success = TRUE
                    /\ Ids(reports') = Ids(reports) \ {result'.reportId}
                    /\ Len(reports') = Len(reports) - 1
                    /\ DocsKept(reports, reports')
               ELSE /\ "success" \notin DOMAIN result'
                    /\ result'.error = "Report not found or access denied"
                    /\ reports' = reports]_vars

\* deleteReport on an id that is not stored has raised while a report is stored
C15_Witness ==
    /\ result.op = "deleteReport"
    /\ "error" \in DOMAIN result
    /\ result.reportId = UnknownId
    /\ Len(reports) = 1
    /\ UnknownId \notin Ids(reports)

----------------------------------------------------------------------------
(* POST /api/esp32-data (http router) *)

\* `x` in `!x` for a string and for an object out of JSON.parse (objects
\* are held as their JSON text)
TruthyString(o) == o # None /\ o[1] # ""
TruthyObject(o) == o # None /\ o[1] # "null"

\* request bodies: text that is not JSON, the JSON value null, and JSON
\* objects in which each required key is missing, falsy or truthy
Vector == "{x: 1, y: 0, z: 9}"
AtRest == "{x: 0, y: 0, z: 0}"

Bodies ==
    {[kind |-> "malformed"], [kind |-> "null"]} \cup
    [kind : {"object"},
     deviceId : {None, Some(""), Some("ESP32-a1b2")},
     timestamp : {None, Some(0), Some(1500)},
     acceleration : {None, Some("null"), Some(Vector), Some(AtRest)},
     gyroscope : {None, Some(Vector)}]

\* mutant: the gyroscope key is not looked at
RequiredFields_NoGyroscope(data) ==
    /\ TruthyString(data.deviceId)
    /\ TruthyNum(data.timestamp)
    /\ TruthyObject(data.acceleration)

\* the negation of `!data.deviceId || !data.timestamp || !data.acceleration
\* || !data.gyroscope`
RequiredFields(data) ==
    /\ TruthyString(data.deviceId)
    /\ TruthyNum(data.timestamp)
    /\ TruthyObject(data.acceleration)
    /\ TruthyObject(data.gyroscope)

Response(body, status) == [op |-> "POST /api/esp32-data", request |-> body, status |-> status]

\* the handler: JSON.parse or the property read on null throws into the
\* catch block (500); a falsy required field returns 400; otherwise
\* analyzeGait runs with the fixed arguments and its session id is returned
PostEsp32Data(body) ==
    IF body.kind # "object"
    THEN /\ result' = Response(body, 500)
         /\ UNCHANGED <<classifierVars, postureSessions, gaitSessions, reports, nextId, now, loop>>
    ELSE IF ~RequiredFields(body)
    THEN /\ result' = Response(body, 400)
         /\ UNCHANGED <<classifierVars, postureSessions, gaitSessions, reports, nextId, now, loop>>
    ELSE /\ RunAnalyzeGait(EndpointGait)
         /\ result' = [op |-> "POST /api/esp32-data", request |-> body, status |-> 200,
                       sessionId |-> AnalyzeGaitReturn(EndpointGait, nextId)]

MaxPosts == 2
MaxHttpNow == 2

NextHttp ==
    \/ \E body \in Bodies : nextId <= MaxPosts /\ PostEsp32Data(body)
    \/ \E a \in {NormalGait} : nextId <= MaxPosts /\ AnalyzeGait(a)
    \/ (now < MaxHttpNow /\ Tick)

SpecHttp == InitStore /\ [][NextHttp]_vars

\* the step is a request to the endpoint
PostIsHandled == result'.op = "POST /api/esp32-data" /\ result' # result

\* a JSON object without one of the four keys
LacksRequiredKey(body) ==
    /\ body.kind = "object"
    /\ None \in {body.deviceId, body.timestamp, body.acceleration, body.gyroscope}

\* a JSON object with the four keys
CarriesRequiredKeys(body) ==
    /\ body.kind = "object"
    /\ None \notin {body.deviceId, body.timestamp, body.acceleration, body.gyroscope}

Rejected(status) ==
    /\ result'.status = status
    /\ UNCHANGED <<args, gaitSessions, nextId>>

Accepted ==
    /\ result'.status = 200
    /\ Len(gaitSessions') = Len(gaitSessions) + 1
    /\ SubSeq(gaitSessions', 1, Len(gaitSessions)) = gaitSessions
    /\ gaitSessions'[Len(gaitSessions')]._id = result'.sessionId.sessionId
    /\ args' = EndpointGait

\* C16: a request whose body lacks deviceId, timestamp, acceleration or
\* gyroscope gets status 400, analyzeGait is not invoked and no gait record
\* is inserted; a body that carries all four is accepted and inserts exactly
\* one record.
C16_MissingKeysRejected ==
    [][PostIsHandled =>
         /\ LacksRequiredKey(result'.request) => Rejected(400)
         /\ CarriesRequiredKeys(result'.request) => Accepted]_vars

\* C16, as the handler decides: a JSON object in which one of the four keys
\* is missing or falsy (0, "", null) gets status 400 without analyzeGait
\* being invoked or a record inserted; a JSON object in which all four are
\* truthy is accepted and inserts exactly one record; a body that is not
\* JSON, or is null, gets status 500 and inserts nothing.
C16_FalsyKeysRejected ==
    [][PostIsHandled =>
         /\ LacksRequiredKey(result'.request) => Rejected(400)
         /\ (CarriesRequiredKeys(result'.request) /\ ~RequiredFields(result'.request)) =>
               Rejected(400)
         /\ (CarriesRequiredKeys(result'.request) /\ RequiredFields(result'.request)) =>
               Accepted
         /\ result'.request.kind # "object" => Rejected(500)]_vars

\* after one accepted request, a request that carries all four keys with
\* timestamp 0 has been rejected
C16_Witness ==
    /\ result.op = "POST /api/esp32-data"
    /\ CarriesRequiredKeys(result.request)
    /\ result.request.timestamp = Some(0)
    /\ result.request.deviceId = Some("ESP32-a1b2")
    /\ result.status = 400
    /\ Len(gaitSessions) = 1
    /\ gaitSessions[1].analysisType = "esp32-wifi"

----------------------------------------------------------------------------
(* The unguarded division of getPostureStats *)

\* C17: with n >= 2 records whose first half (the first floor(n/2) records)
\* holds no "good" record the improvement rate is not a finite number: NaN
\* when the second half holds no "good" record either, Infinity otherwise;
\* with a "good" record in the first half it is finite, and with n = 1 (the
\* first half is empty) it is 0.
C17_UnguardedImprovementRate ==
    (IsPostureStatsCall /\ Len(postureSessions) >= 1) =>
        LET n == Len(postureSessions)
            fl == n \div 2
            fg == GoodIn(postureSessions, 1, fl)
            sg == GoodIn(postureSessions, fl + 1, n)
        IN /\ (n >= 2 /\ fg = 0 /\ sg = 0) => result.value.improvementRate = NaN
           /\ (n >= 2 /\ fg = 0 /\ sg > 0) => result.value.improvementRate = Infinity
           /\ (n >= 2 /\ fg > 0) => IsFinite(result.value.improvementRate)
           /\ n = 1 => result.value.improvementRate = Finite(0, 1)

\* statistics were read over a "poor" record followed by two "good" ones:
\* the rate is Infinity
C17_Witness ==
    /\ IsPostureStatsCall
    /\ Len(postureSessions) = 3
    /\ postureSessions[1].classification = "poor"
    /\ postureSessions[2].classification = "good"
    /\ postureSessions[3].classification = "good"
    /\ result.value.improvementRate = Infinity

----------------------------------------------------------------------------
(* The posture score rule *)

\* C18: for every sample that carries a postureScore the score rule is
\* applied: a score below 60, 0 included, gives the label "poor" and a score
\* below 80 gives at least "fair"; the rule is skipped only when the field is
\* missing.
C18_ScoreRuleWhenPresent ==
    (pc = NumPostureRules /\ args.postureScore # None) =>
        /\ args.postureScore[1] < 60 => classification = "poor"
        /\ args.postureScore[1] < 80 => Severity(classification) >= Severity("fair")

----------------------------------------------------------------------------
(* Specification of the report composer over a store of more than ten
   records of one domain *)

MaxRecentSessions == 11

NextRecent ==
    \/ \E a \in {UprightPosture, BadPosture} :
          /\ reports = << >>
          /\ gaitSessions = << >>
          /\ Len(postureSessions) < MaxRecentSessions
          /\ AnalyzePosture(a)
    \/ \E a \in {NormalGait, EndpointGait} :
          /\ reports = << >>
          /\ postureSessions = << >>
          /\ Len(gaitSessions) < MaxRecentSessions
          /\ AnalyzeGait(a)
    \/ \E type \in ReportTypes : reports = << >> /\ GenerateReport(<< >>, type, "Report")

SpecRecent == InitStore /\ [][NextRecent]_vars

\* the ids of the records a section of the generated report was computed from
UsedBy(section) == IF section.kind = "analysis"
                   THEN {section.used[k] : k \in 1..Len(section.used)} ELSE {}

\* the records of a table created after the record of the given id
CreatedAfter(table, id) == {k \in 1..Len(table) : table[k]._id > id}

\* C19: every record that contributes to a domain's figures is among the 10
\* most recently created records of the domain, and at most 10 contribute.
C19_MostRecentTen ==
    IsReportCall =>
        /\ \A id \in UsedBy(GeneratedReport.summary.posture) :
              Cardinality(CreatedAfter(postureSessions, id)) < RecentLimit
        /\ \A id \in UsedBy(GeneratedReport.summary.gait) :
              Cardinality(CreatedAfter(gaitSessions, id)) < RecentLimit
        /\ Cardinality(UsedBy(GeneratedReport.summary.posture)) <= RecentLimit
        /\ Cardinality(UsedBy(GeneratedReport.summary.gait)) <= RecentLimit

\* the usable posture records created after the record of the given id
UsableCreatedAfter(id) ==
    {k \in CreatedAfter(postureSessions, id) : postureSessions[k].forwardHeadAngle <= 30}

\* C19, as generateReport selects: the posture figures are computed from the
\* 10 most recently created records among those with forwardHeadAngle <= 30
\* (all of them when there are fewer), the gait figures from the 10 most
\* recently created gait records, and never from more than 10 records.
C19_MostRecentTenUsable ==
    IsReportCall =>
        /\ WantsPosture(GeneratedReport.type) =>
              UsedBy(GeneratedReport.summary.posture) =
                 {postureSessions[k]._id : k \in
                    {j \in 1..Len(postureSessions) :
                        /\ postureSessions[j].forwardHeadAngle <= 30
                        /\ Cardinality(UsableCreatedAfter(postureSessions[j]._id))
                              < RecentLimit}}
        /\ WantsGait(GeneratedReport.type) =>
              UsedBy(GeneratedReport.summary.gait) =
                 {gaitSessions[k]._id : k \in
                    {j \in 1..Len(gaitSessions) :
                        Cardinality(CreatedAfter(gaitSessions, gaitSessions[j]._id))
                           < RecentLimit}}
        /\ Cardinality(UsedBy(GeneratedReport.summary.posture)) <= RecentLimit
        /\ Cardinality(UsedBy(GeneratedReport.summary.gait)) <= RecentLimit

\* a posture report over eleven records, the oldest of which has
\* forwardHeadAngle > 30: the ten records after it are used
C19_Witness ==
    /\ IsReportCall
    /\ Len(postureSessions) = 11
    /\ postureSessions[1].forwardHeadAngle > 30
    /\ GeneratedReport.summary.posture.kind = "analysis"
    /\ GeneratedReport.summary.posture.sessionsAnalyzed = 10
    /\ UsedBy(GeneratedReport.summary.posture) = 2..11

----------------------------------------------------------------------------
(* The trend of a report *)

\* C20: whenever a report section is computed from a non-empty set of
\* records, a single record included, the first-half / second-half delta it
\* prints (posture score trend, gait symmetry trend) is a number: neither
\* half's average is a division by zero.
C20_TrendDeltaDefined ==
    IsReportCall =>
        /\ GeneratedReport.summary.posture.kind = "analysis" =>
              IsFinite(GeneratedReport.summary.posture.trendPoints)
        /\ GeneratedReport.summary.gait.kind = "analysis" =>
              IsFinite(GeneratedReport.summary.gait.trendPoints)

----------------------------------------------------------------------------
(* The recommendations of analyzePosture *)

Affirmation == "Excellent posture! Keep maintaining this good posture"

\* the strings rule k pushes on its own
PushedBy(k, a) == PostureRule(k, a, InitialPosture).recommendations

\* the strings of the rules 1..k, in rule order
RECURSIVE PushedUpTo(_, _)
PushedUpTo(k, a) == IF k = 0 THEN << >> ELSE PushedUpTo(k - 1, a) \o PushedBy(k, a)

Elements(s) == {s[k] : k \in 1..Len(s)}

\* C21: the list analyzePosture stores is never empty: it grows by appending
\* only, holds the string of each fired rule in rule order, and holds the
\* affirmation exactly when no rule pushed a string, in which case it is the
\* only entry; a "fair" or "poor" label never goes with the affirmation, and
\* forwardHeadAngle > 15 always adds the forward-head correction.
C21_RecommendationsNeverEmpty ==
    /\ [][\E tail \in {SubSeq(recommendations', Len(recommendations) + 1,
                              Len(recommendations'))} :
             recommendations' = recommendations \o tail]_vars
    /\ []((pc > 0 /\ pc < NumPostureRules) =>
             /\ recommendations = PushedUpTo(pc, args)
             /\ Len(PushedBy(pc, args)) <= 1
             /\ Affirmation \notin Elements(recommendations))
    /\ [](pc = NumPostureRules =>
             /\ Len(recommendations) >= 1
             /\ recommendations = ClassifyPosture(args).recommendations
             /\ IF PushedUpTo(NumPostureRules - 1, args) = << >>
                THEN recommendations = <<Affirmation>> /\ classification = "good"
                ELSE recommendations = PushedUpTo(NumPostureRules - 1, args)
             /\ classification \in {"fair", "poor"} =>
                   Affirmation \notin Elements(recommendations)
             /\ args.forwardHeadAngle > 15 =>
                   "Reduce forward head posture by adjusting monitor height"
                      \in Elements(recommendations))

\* a sample labelled "good" for which two rules fired: the list holds their
\* two strings and no affirmation
C21_Witness ==
    /\ pc = NumPostureRules
    /\ classification = "good"
    /\ recommendations = <<"Keep your arms relaxed at your sides for better posture",
                           "Sit with both feet flat on the ground for proper posture">>

----------------------------------------------------------------------------
(* What the gait label depends on *)

\* a sample with the given symmetry and balance in which no other rule fires
PlainGait(symmetryScore, leftRightBalance) ==
    [stepCount |-> 0, symmetryScore |-> symmetryScore, cadence |-> 130,
     leftRightBalance |-> leftRightBalance, analysisType |-> "motion",
     strideLength |-> None, gaitSpeed |-> None, stancePhase |-> None,
     swingPhase |-> None, heelStrikeForce |-> None, toeOffForce |-> None]

IsPrefix(s, t) == Len(s) <= Len(t) /\ SubSeq(t, 1, Len(s)) = s

\* C22: the label of a gait sample is the label of the sample with the same
\* symmetryScore and leftRightBalance in which no other rule fires, so two
\* samples that agree on the two fields get the same label; the rules on
\* cadence, stance / swing phase, force and speed never change the label and
\* only append to the recommendations of the first two rules.
C22_LabelFromSymmetryAndBalance ==
    /\ [](pc = NumGaitRules =>
            LET plain == PlainGait(args.symmetryScore, args.leftRightBalance)
            IN /\ classification = ClassifyGait(plain).classification
               /\ classification = ClassifyGait(args).classification
               /\ IsPrefix(GaitEval(plain, 2).recommendations, recommendations))
    /\ [][pc >= 2 =>
            /\ classification' = classification
            /\ IsPrefix(recommendations, recommendations')]_vars

\* a sensor sample labelled "normal" for which the cadence, stance and force
\* rules have all fired
C22_Witness ==
    /\ pc = NumGaitRules
    /\ classification = "normal"
    /\ args.analysisType = "esp32"
    /\ recommendations =
          <<"Cadence outside normal range - aim for 120-160 steps per minute",
            "Abnormal stance phase duration - may indicate balance issues",
            "Uneven ground reaction forces - consider gait training">>

----------------------------------------------------------------------------
(* The risk cascades of generateReport, one `if` statement per step. The
   run variables hold the cascade: args the averages of the section, pc the
   number of statements done, classification `riskLevel` and
   recommendations `riskFactors`. *)

NumPostureRiskSteps == 4
NumGaitRiskSteps == 3

PostureRiskStep(k, a, r) ==
    CASE k = 1 -> ForwardHeadRisk(a.avgForwardHead, r)
      [] k = 2 -> ShoulderRisk(a.avgShoulderTilt, r)
      [] k = 3 -> SpineRisk(a.avgSpineAlignment, r)
      [] k = 4 -> HunchbackRisk(a.dominantSittingPosition, r)

GaitRiskStep(k, a, r) ==
    CASE k = 1 -> SymmetryRisk(a.avgSymmetry, r)
      [] k = 2 -> BalanceRisk(a.avgLeftRightBalance, r)
      [] k = 3 -> CadenceRisk(a.avgCadence, r)

NumRiskSteps(a) == IF a.domain = "posture" THEN NumPostureRiskSteps ELSE NumGaitRiskSteps

\* averages on both sides of every threshold, halves included
PostureAverages ==
    [domain : {"posture"},
     avgForwardHead : {Finite(10, 1), Finite(21, 2), Finite(15, 1), Finite(31, 2)},
     avgShoulderTilt : {Finite(5, 1), Finite(11, 2), Finite(10, 1), Finite(21, 2)},
     avgSpineAlignment : {Finite(139, 2), Finite(70, 1), Finite(159, 2), Finite(80, 1)},
     dominantSittingPosition : {"straight", "hunchback", "unknown"}]

GaitAverages ==
    [domain : {"gait"},
     avgSymmetry : {Finite(139, 2), Finite(70, 1), Finite(159, 2), Finite(80, 1)},
     avgLeftRightBalance : {Finite(79, 2), Finite(40, 1), Finite(89, 2), Finite(45, 1),
                            Finite(50, 1), Finite(55, 1), Finite(111, 2), Finite(60, 1),
                            Finite(121, 2)},
     avgCadence : {Finite(199, 2), Finite(100, 1), Finite(140, 1), Finite(281, 2)}]

InitRisk ==
    /\ args \in PostureAverages \cup GaitAverages
    /\ pc = 0
    /\ classification = LowRisk.riskLevel
    /\ recommendations = LowRisk.riskFactors
    /\ EmptyStore

RiskStep ==
    /\ pc < NumRiskSteps(args)
    /\ LET r == [riskLevel |-> classification, riskFactors |-> recommendations]
           next == IF args.domain = "posture"
                   THEN PostureRiskStep(pc + 1, args, r)
                   ELSE GaitRiskStep(pc + 1, args, r)
       IN /\ classification' = next.riskLevel
          /\ recommendations' = next.riskFactors
    /\ pc' = pc + 1
    /\ UNCHANGED <<args, storeVars>>

NextRisk == RiskStep

SpecRisk == InitRisk /\ [][NextRisk]_vars

RiskRank(level) == CASE level = "LOW" -> 0 [] level = "MODERATE" -> 1 [] level = "HIGH" -> 2

\* p / q > k and p / q < k on the fraction itself
Above(x, k) == x.p > k * x.q
Below(x, k) == x.p < k * x.q

\* C23: the risk level starts at LOW and no statement of the cascade lowers
\* it; at the end the posture level is HIGH iff the average forward-head
\* angle > 15 or the average |shoulder tilt| > 10 or the average spine
\* alignment < 70, and the gait level is HIGH iff the average symmetry < 70
\* or |average balance - 50| > 10. The level a report prints is this one.
C23_RiskOnlyEscalates ==
    /\ [](pc = 0 => classification = "LOW")
    /\ [][RiskRank(classification') >= RiskRank(classification)]_vars
    /\ []((pc = NumRiskSteps(args) /\ args.domain = "posture") =>
            /\ classification = "HIGH" <=>
                  \/ Above(args.avgForwardHead, 15)
                  \/ Above(args.avgShoulderTilt, 10)
                  \/ Below(args.avgSpineAlignment, 70)
            /\ classification = PostureRisk(args.avgForwardHead, args.avgShoulderTilt,
                                            args.avgSpineAlignment,
                                            args.dominantSittingPosition).riskLevel)
    /\ []((pc = NumRiskSteps(args) /\ args.domain = "gait") =>
            /\ classification = "HIGH" <=>
                  \/ Below(args.avgSymmetry, 70)
                  \/ Above(args.avgLeftRightBalance, 60)
                  \/ Below(args.avgLeftRightBalance, 40)
            /\ classification = GaitRisk(args.avgSymmetry, args.avgLeftRightBalance,
                                         args.avgCadence).riskLevel)

\* a posture cascade that went to HIGH on its first statement and then
\* through three statements that ask for MODERATE
C23_Witness ==
    /\ args.domain = "posture"
    /\ pc = NumPostureRiskSteps
    /\ classification = "HIGH"
    /\ recommendations = <<"High forward head posture", "Minor shoulder imbalance",
                           "Suboptimal spinal alignment", "Frequent hunchback posture">>

----------------------------------------------------------------------------
(* The recommendations of a report *)

DefaultRecommendation == "Continue maintaining good biomechanical patterns"

NoDuplicates(s) == \A i, j \in 1..Len(s) : s[i] = s[j] => i = j

\* what the posture and gait blocks of the generating call pushed
PushedByBlocks(report) ==
    GaitPart(report.type, gaitSessions,
             PosturePart(report.type, postureSessions, << >>).recommendations).recommendations

\* C24: the recommendations of every stored report are non-empty and without
\* a repeated string, for every report type and store; they are exactly the
\* default string when no rule of the two blocks pushed one, and otherwise
\* the pushed strings without the default.
C24_ReportRecommendationsDistinct ==
    IsReportCall =>
        /\ Len(GeneratedReport.recommendations) >= 1
        /\ NoDuplicates(GeneratedReport.recommendations)
        /\ IF PushedByBlocks(GeneratedReport) = << >>
           THEN GeneratedReport.recommendations = <<DefaultRecommendation>>
           ELSE /\ GeneratedReport.recommendations = PushedByBlocks(GeneratedReport)
                /\ DefaultRecommendation \notin Elements(GeneratedReport.recommendations)

\* a combined report whose two blocks both pushed strings
C24_Witness ==
    /\ IsReportCall
    /\ GeneratedReport.type = "combined"
    /\ GeneratedReport.summary.posture.kind = "analysis"
    /\ GeneratedReport.summary.gait.kind = "analysis"
    /\ Len(PosturePart("combined", postureSessions, << >>).recommendations) >= 2
    /\ Len(GeneratedReport.recommendations)
          >= Len(PosturePart("combined", postureSessions, << >>).recommendations) + 2

----------------------------------------------------------------------------
(* The bulk deletes under a failing delete: each call is one mutation, no
   other function runs inside it, and a `ctx.db.delete` of the loop may
   reject (a function limit is hit, the call is cut off) *)

\* `await ctx.db.delete(session._id)` rejects: the handler has no try/catch,
\* the mutation ends with the error and its writes are discarded
DeleteThrows ==
    /\ loop # NoLoop
    /\ ~LoopDone(loop)
    /\ result' = Thrown(loop, "Function execution failed")
    /\ loop' = NoLoop
    /\ postureSessions' = IF loop.table = "postureSessions"
                          THEN Rollback(postureSessions, loop) ELSE postureSessions
    /\ gaitSessions' = IF loop.table = "gaitSessions"
                       THEN Rollback(gaitSessions, loop) ELSE gaitSessions
    /\ UNCHANGED <<classifierVars, reports, nextId, now>>

MaxBulkInserts == 3

NextBulk ==
    \/ \E a \in StorePostureSamples :
          loop = NoLoop /\ nextId <= MaxBulkInserts /\ AnalyzePosture(a)
    \/ \E a \in StoreGaitSamples :
          loop = NoLoop /\ nextId <= MaxBulkInserts /\ AnalyzeGait(a)
    \/ \E name \in {"postureSessions", "gaitSessions"} : DeleteAllCollect(name)
    \/ CleanupCollect
    \/ DeleteAllStep
    \/ DeleteThrows
    \/ DeleteAllReturn

SpecBulk == InitStore /\ [][NextBulk]_vars

\* a step in which the running bulk delete ends with an error
BulkDeleteThrows == loop # NoLoop /\ loop' = NoLoop /\ "error" \in DOMAIN result'

\* a step of the loop that deletes
BulkDeleteSteps == loop # NoLoop /\ loop' # NoLoop

DeletedSoFar(l) == {l.sessions[i]._id : i \in 1..(l.next - 1)}

StillToDelete(l) == {l.sessions[i]._id : i \in l.next..Len(l.sessions)}

\* the records are deleted one at a time, in the order read
OneAtATime ==
    BulkDeleteSteps =>
        /\ Ids(TableAfter(loop.table)) = Ids(TableOf(loop.table)) \ {loop.sessions[loop.next]._id}
        /\ Len(TableAfter(loop.table)) = Len(TableOf(loop.table)) - 1

----------------------------------------------------------------------------
(* Sensor recordings: the recording UI (saveESP32Session) and the HTTP
   endpoint store gait records, generateReport reads them *)

\* metrics the recording UI has computed from the sensor stream
Esp32Metrics ==
    {[stepCount |-> 24, symmetryScore |-> 88, cadence |-> 110, leftRightBalance |-> 52,
      strideLength |-> Some(1), gaitSpeed |-> Some(12),
      stancePhase |-> Some(stance), swingPhase |-> Some(100 - stance),
      heelStrikeForce |-> Some(10), toeOffForce |-> Some(10)] : stance \in {60, 72}}

\* saveESP32Session: `analyzeGait({ ...currentGaitMetrics, analysisType: 'esp32', ... })`
SaveESP32Session(m) ==
    AnalyzeGait([stepCount |-> m.stepCount, symmetryScore |-> m.symmetryScore,
                 cadence |-> m.cadence, leftRightBalance |-> m.leftRightBalance,
                 analysisType |-> "esp32", strideLength |-> m.strideLength,
                 gaitSpeed |-> m.gaitSpeed, stancePhase |-> m.stancePhase,
                 swingPhase |-> m.swingPhase, heelStrikeForce |-> m.heelStrikeForce,
                 toeOffForce |-> m.toeOffForce])

MaxSensorSessions == 3

NextSensor ==
    \/ \E m \in Esp32Metrics :
          reports = << >> /\ Len(gaitSessions) < MaxSensorSessions /\ SaveESP32Session(m)
    \/ \E body \in Bodies :
          reports = << >> /\ Len(gaitSessions) < MaxSensorSessions /\ PostEsp32Data(body)
    \/ reports = << >> /\ GenerateReport(<< >>, "gait", "Gait report")

SpecSensor == InitStore /\ [][NextSensor]_vars

GaitRecord(id) == Get(gaitSessions, id)[1]

\* the records of a gait section that went through the sensor rules of analyzeGait
SensorAnalysed(section) == {id \in UsedBy(section) : IsEsp32Analysis(GaitRecord(id))}

\* C26: a stored gait record went through the sensor rules of analyzeGait
\* exactly when generateReport counts it as a sensor session, and the
\* "Sensor Sessions" figure of a report is the number of records of its gait
\* section that went through the sensor rules (no sensor block when none did).
C26_SensorRecordsAgree ==
    /\ \A k \in 1..Len(gaitSessions) :
          IsEsp32Analysis(gaitSessions[k]) <=> IsEsp32Session(gaitSessions[k])
    /\ (IsReportCall /\ GeneratedReport.summary.gait.kind = "analysis") =>
          IF SensorAnalysed(GeneratedReport.summary.gait) = {}
          THEN GeneratedReport.summary.gait.sensor = None
          ELSE /\ GeneratedReport.summary.gait.sensor # None
               /\ GeneratedReport.summary.gait.sensor[1].sensorSessions[1] =
                     Cardinality(SensorAnalysed(GeneratedReport.summary.gait))

----------------------------------------------------------------------------
(* Report risk against the classifier's labels *)

\* every record the posture section was computed from has the label "good"
AllUsedGood(section) ==
    \A id \in UsedBy(section) : PostureRecord(id).classification = "good"

\* C27: when every posture record a report's posture section was computed
\* from is classified "good", the section's risk level is LOW and it names no
\* risk factor.
C27_GoodRecordsLowRisk ==
    (/\ IsReportCall
     /\ GeneratedReport.summary.posture.kind = "analysis"
     /\ AllUsedGood(GeneratedReport.summary.posture))
        => /\ GeneratedReport.summary.posture.riskLevel = "LOW"
           /\ GeneratedReport.summary.posture.riskFactors = << >>

----------------------------------------------------------------------------
(* cleanupBadPostureData against what analyzePosture stored *)

PostureIsAnalyzed == result'.op = "analyzePosture" /\ result' # result

CleanupIsCalled == result'.op = "cleanupBadPostureData" /\ result' # result

\* C28: analyzePosture stores the sample it is given, also one with
\* forwardHeadAngle > 30; a cleanupBadPostureData call removes exactly the
\* posture records with forwardHeadAngle > 30, keeps the others in their
\* order, leaves gait records and reports alone and returns the number of
\* records it removed; a second call right after removes nothing and returns 0.
C28_CleanupRemovesExactlyBadRecords ==
    /\ [][PostureIsAnalyzed =>
            /\ "error" \notin DOMAIN result'
            /\ Len(postureSessions') = Len(postureSessions) + 1
            /\ SubSeq(postureSessions', 1, Len(postureSessions)) = postureSessions
            /\ postureSessions'[Len(postureSessions')].forwardHeadAngle
                  = args'.forwardHeadAngle
            /\ postureSessions'[Len(postureSessions')]._id = result'.sessionId]_vars
    /\ [][CleanupIsCalled =>
            /\ "error" \notin DOMAIN result'
            /\ postureSessions' =
                  SelectSeq(postureSessions, LAMBDA s : ~(s.forwardHeadAngle > 30))
            /\ UNCHANGED <<gaitSessions, reports>>
            /\ result'.deletedCount = Len(postureSessions) - Len(postureSessions')]_vars
    /\ [][(result.op = "cleanupBadPostureData" /\ CleanupIsCalled) =>
            /\ result'.deletedCount = 0
            /\ UNCHANGED postureSessions]_vars
    /\ [](result.op = "cleanupBadPostureData" =>
            \A k \in 1..Len(postureSessions) : postureSessions[k].forwardHeadAngle <= 30)

\* a sample with forwardHeadAngle > 30 was stored next to another one, and a
\* clean-up has removed it and kept the other
C28_Witness ==
    /\ result.op = "cleanupBadPostureData"
    /\ result.deletedCount = 1
    /\ nextId = 3
    /\ Len(postureSessions) = 1
    /\ postureSessions[1].forwardHeadAngle <= 30

----------------------------------------------------------------------------
(* The records the endpoint creates *)

FromEndpoint(s) ==
    /\ s.analysisType = "esp32-wifi"
    /\ s.symmetryScore = 0
    /\ s.stepCount = 0
    /\ s.cadence = 0
    /\ s.leftRightBalance = 50
    /\ s.stancePhase = Some(60)
    /\ s.swingPhase = Some(40)
    /\ s.classification = "asymmetric"

\* C29: a request the endpoint answers with 200 inserts exactly one gait
\* record, with symmetryScore 0, stepCount 0 and leftRightBalance 50 whatever
\* the acceleration and gyroscope of the body are, and every record created
\* through the endpoint has the label "asymmetric".
C29_EndpointRecordsAsymmetric ==
    /\ [][(PostIsHandled /\ result'.status = 200) =>
            /\ Len(gaitSessions') = Len(gaitSessions) + 1
            /\ SubSeq(gaitSessions', 1, Len(gaitSessions)) = gaitSessions
            /\ FromEndpoint(gaitSessions'[Len(gaitSessions')])
            /\ result'.sessionId.classification = "asymmetric"
            /\ UNCHANGED <<postureSessions, reports>>]_vars
    /\ [](\A k \in 1..Len(gaitSessions) :
            gaitSessions[k].analysisType = "esp32-wifi" => FromEndpoint(gaitSessions[k]))

\* two requests with different sensor values were accepted (the second one at
\* rest) and have left two records with the same metrics
C29_Witness ==
    /\ result.op = "POST /api/esp32-data"
    /\ result.status = 200
    /\ result.request.acceleration = Some(AtRest)
    /\ Len(gaitSessions) = 2
    /\ FromEndpoint(gaitSessions[1])
    /\ FromEndpoint(gaitSessions[2])
    /\ gaitSessions[1].recommendations = gaitSessions[2].recommendations

----------------------------------------------------------------------------
(* chatWithAI (action): Gemini, then OpenAI, then the canned answers.
   A string is held as the sequence of its fragments, a user message as the
   set of the keywords `message.includes(...)` finds in it, an HTTP exchange
   as the outcome of fetch *)

\* fetch rejected (network error)
FetchRejects == [kind |-> "rejects"]

\* fetch resolved: `response.ok` and the body, as text that JSON.parse refuses
\* or as the value it parses to
Fetched(ok, body) == [kind |-> "response", ok |-> ok, body |-> body]
NotJson == [json |-> FALSE]
Json(data) == [json |-> TRUE, data |-> data]

GeminiResponses ==
    {FetchRejects, Fetched(FALSE, NotJson), Fetched(TRUE, NotJson),
     Fetched(TRUE, Json([candidates |-> << >>])),
     Fetched(TRUE, Json([candidates |->
         <<[content |-> [parts |-> <<[functionCall |-> "lookup"]>>]]>>])),
     Fetched(TRUE, Json([candidates |->
         <<[content |-> [parts |-> <<[text |-> <<"Raise your monitor to eye level.">>]>>]]>>]))}

OpenAiResponses ==
    {FetchRejects, Fetched(FALSE, NotJson), Fetched(TRUE, NotJson),
     Fetched(TRUE, Json([choices |-> << >>])),
     Fetched(TRUE, Json([choices |-> <<[message |-> [content |-> None]]>>])),
     Fetched(TRUE, Json([choices |->
         <<[message |-> [content |-> Some(<<"Do ten chin tucks every two hours.">>)]]>>]))}

ChatMessages ==
    {{}, {"hi"}, {"time", "posture"}, {"walking"}}

ChatStats == {None, Some([totalSessions |-> 3])}

\* what a handler's attempt at a provider comes to
Continue == [kind |-> "continue"]
Throw == [kind |-> "throw"]
Return(value) == [kind |-> "return", value |-> value]

\* `data.candidates[0].content.parts[0].text`: a TypeError when there is no
\* candidate, undefined when the first part has no text
GeminiText(data) ==
    IF data.candidates = << >> THEN Throw
    ELSE LET part == data.candidates[1].content.parts[1]
         IN IF "text" \in DOMAIN part THEN Return(Some(part.text)) ELSE Return(None)

\* `data.choices[0].message.content`
OpenAiContent(data) ==
    IF data.choices = << >> THEN Throw ELSE Return(data.choices[1].message.content)

\* the inner try/catch around the Gemini call: whatever is thrown is logged
\* and the handler goes on
TryGemini(r) ==
    IF r.kind = "rejects" THEN Continue
    ELSE IF ~r.ok THEN Continue
    ELSE IF ~r.body.json THEN Continue
    ELSE IF GeminiText(r.body.data) = Throw THEN Continue
    ELSE GeminiText(r.body.data)

\* the OpenAI call, under the outer try only
TryOpenAi(r) ==
    IF r.kind = "rejects" THEN Throw
    ELSE IF ~r.ok THEN Continue
    ELSE IF ~r.body.json THEN Throw
    ELSE OpenAiContent(r.body.data)

\* `stats && stats.totalSessions > 0`
HasSessions(stats) == stats # None /\ stats[1].totalSessions > 0

\* generateFallbackResponse, below the keywords its callers have dealt with
FallbackResponse(message) ==
    IF message \cap {"exercise", "strengthen", "workout"} # {} THEN <<"AI Exercise Prescription">>
    ELSE IF message \cap {"ergonomic", "workspace", "desk"} # {} THEN <<"AI Ergonomic Assessment">>
    ELSE IF message \cap {"pain", "ache", "discomfort"} # {}
    THEN <<"AI Movement Health Assessment">>
    ELSE IF message \cap {"improve", "better", "tips"} # {}
    THEN <<"AI Biomechanics Improvement Plan">>
    ELSE <<"AI Biomechanics Assistant", "Thank you for your question!">>

\* generateEnhancedFallbackResponse
EnhancedFallbackResponse(message, postureStats, gaitStats) ==
    IF message \cap {"posture", "forward head", "sitting", "wrong position", "back"} # {}
    THEN <<"AI Biomechanics Expert - Comprehensive Analysis">>
            \o (IF HasSessions(postureStats) THEN <<"Your Personal Posture Profile">> ELSE << >>)
            \o <<"Effects of Prolonged Poor Posture">>
    ELSE IF message \cap {"gait", "walking", "symmetry", "balance"} # {}
    THEN <<"AI Gait Analysis Expert">>
            \o (IF HasSessions(gaitStats) THEN <<"Your Gait Performance Profile">> ELSE << >>)
            \o <<"Gait Optimization Strategy">>
    ELSE FallbackResponse(message)

\* generateComprehensiveBiomechanicsResponse
ComprehensiveResponse(message, postureStats, gaitStats) ==
    IF message \cap {"date", "time", "today"} # {}
    THEN <<"AI Biomechanics Assistant", "Today is">>
    ELSE IF message \cap {"hello", "hi", "hey"} # {}
    THEN <<"AI Biomechanics Expert", "Hello!",
           IF HasSessions(postureStats) THEN "posture sessions analyzed"
           ELSE "No posture data yet",
           IF HasSessions(gaitStats) THEN "gait sessions recorded" ELSE "No gait data yet">>
    ELSE EnhancedFallbackResponse(message, postureStats, gaitStats)

\* `process.env.GEMINI_API_KEY || 'AIza...'`
GeminiKey(env) == IF TruthyString(env) THEN env ELSE Some("AIzaSy")

\* the handler: `value` is what it returns, `fetched` the providers it called
ChatWithAI(a) ==
    LET canned == Some(ComprehensiveResponse(a.userMessage, a.postureStats, a.gaitStats))
        gemini == IF TruthyString(GeminiKey(a.geminiKey)) THEN TryGemini(a.gemini) ELSE Continue
        openai == IF TruthyString(a.openaiKey) THEN TryOpenAi(a.openai) ELSE Continue
    IN /\ args' = a
       /\ result' =
            IF gemini.kind = "return"
            THEN [op |-> "chatWithAI", value |-> gemini.value, fetched |-> <<"gemini">>]
            ELSE [op |-> "chatWithAI",
                  value |-> IF openai.kind = "return" THEN openai.value ELSE canned,
                  fetched |-> IF TruthyString(a.openaiKey)
                              THEN <<"gemini", "openai">> ELSE <<"gemini">>]
       /\ UNCHANGED <<pc, classification, recommendations, postureSessions, gaitSessions,
                      reports, nextId, now, loop>>

ChatInputs ==
    [userMessage : ChatMessages,
     postureStats : ChatStats,
     gaitStats : ChatStats,
     geminiKey : {None, Some("g-key")},
     openaiKey : {None, Some("sk-key")},
     gemini : GeminiResponses,
     openai : OpenAiResponses]

NextChat == \E a \in ChatInputs : ChatWithAI(a)

SpecChat == InitStore /\ [][NextChat]_vars

\* a provider has answered: status OK and a body that carries the answer text
GeminiAnswered(r) ==
    /\ r.kind = "response"
    /\ r.ok
    /\ r.body.json
    /\ r.body.data.candidates # << >>
    /\ "text" \in DOMAIN r.body.data.candidates[1].content.parts[1]

OpenAiAnswered(r) ==
    /\ r.kind = "response"
    /\ r.ok
    /\ r.body.json
    /\ r.body.data.choices # << >>
    /\ r.body.data.choices[1].message.content # None

\* C30: a chatWithAI call ends with a string and no error; Gemini is called
\* first and OpenAI after it only when its key is configured; the answer of
\* the first provider that answered is the result, and when neither answered
\* (network error, non-OK status, body that is not JSON or carries no answer
\* text) the result is what generateComprehensiveBiomechanicsResponse returns.
C30_ChatAlwaysAnswers ==
    result.op = "chatWithAI" =>
        /\ "error" \notin DOMAIN result
        /\ result.value # None
        /\ result.fetched \in {<<"gemini">>, <<"gemini", "openai">>}
        /\ Len(result.fetched) = 2 => TruthyString(args.openaiKey)
        /\ IF GeminiAnswered(args.gemini)
           THEN /\ result.value =
                     Some(args.gemini.body.data.candidates[1].content.parts[1].text)
                /\ result.fetched = <<"gemini">>
           ELSE IF TruthyString(args.openaiKey) /\ OpenAiAnswered(args.openai)
           THEN result.value = args.openai.body.data.choices[1].message.content
           ELSE result.value =
                   Some(ComprehensiveResponse(args.userMessage, args.postureStats,
                                              args.gaitStats))

====
